---------------------------- MODULE Spec2Model ----------------------------
(***************************************************************************)
(* A model of the events-planner client: the events list page, the event   *)
(* detail page with its child forms, and the five forms' submit            *)
(* lifecycles.  Every handler is one action per synchronous stretch of     *)
(* its code: the part up to an await, and the continuation after it.       *)
(*                                                                         *)
(* JavaScript values: a nullable value is a sequence of length 0 (null)    *)
(* or 1; a string that the code measures or trims is a sequence of         *)
(* one-character strings; a message is a record of its literal text and    *)
(* the values interpolated into it.                                        *)
(***************************************************************************)
EXTENDS Integers, Sequences, FiniteSets, Bags, TLC

VARIABLES
    host,          \* which App mounts the page: "router" (App.jsx) or "demo"
    page,          \* the page component that is mounted: "list" or "detail",
                   \* or "home" for the demo App's home view
    routeId,       \* the :id of the path (router) or selectedEventId (demo)
    mounted,       \* the page's mount effect has run
    event,         \* EventDetailPage: event
    events,        \* EventsPage: events
    loading,       \* loading of the mounted page
    error,         \* error of the mounted page
    showRSVPForm,  \* EventDetailPage: showRSVPForm
    showEditForm,  \* EventDetailPage: showEditForm
    rsvps,         \* EventDetailPage: rsvps
    rsvpLoading,   \* EventDetailPage: rsvpLoading
    showTaskForm,  \* EventDetailPage: showTaskForm
    tasks,         \* EventDetailPage: tasks
    taskSummary,   \* EventDetailPage: taskSummary
    taskLoading,   \* EventDetailPage: taskLoading
    editingTaskId, \* the mounted TaskList's editingTaskId
    processingTasks, \* the mounted TaskList's processingTasks
    deleteLoading, \* EventDetailPage: deleteLoading
    editInitial,   \* the mounted EditEventForm's initialValues
    editError,     \* the mounted EditEventForm's submitError
    net,           \* the requests in flight (a bag)
    ops,           \* the user actions that issued a request so far
    last,          \* the handler part that ran last, and what it was given
    form,          \* the form component under study, "none" under the pages
    values,        \* formData / Formik's values: field -> value
    fieldErrors,   \* validationErrors / Formik's errors: field -> message or null
    isSubmitting,  \* the form's submitting flag
    banner,        \* submitError / Formik's status: the form's general message
    submitSuccess, \* RSVPForm's submitSuccess
    shown,         \* the form is mounted
    now,           \* the current time, in minutes since the bundle was loaded
    renderedAt,    \* the time of the form's last render
    timezone,      \* the minutes the client's clock is ahead of UTC
    received,      \* the event the EditEventForm got from the server, or null
    serverTasks,   \* the tasks of the event as the server holds them, where
                   \* the server is followed; <<>> where its answers are free
    served         \* the task lists the server has put into responses to
                   \* GET /events/{id}/tasks that have not arrived yet (a bag)

viewVars == <<host, page, routeId, mounted, event, events, loading, error,
              showRSVPForm, showEditForm, rsvps, rsvpLoading, editInitial,
              editError, showTaskForm, tasks, taskSummary, taskLoading,
              editingTaskId, processingTasks, deleteLoading>>
formVars == <<form, values, fieldErrors, isSubmitting, banner, submitSuccess,
              shown, now, renderedAt, timezone, received>>
serverVars == <<serverTasks, served>>
vars == <<viewVars, formVars, serverVars, net, ops, last>>

-----------------------------------------------------------------------------
(* Bounds of the model. *)

\* The user actions that issue a request, per behaviour.
MaxOps == 2
\* The minutes that pass after the bundle is loaded, per behaviour.
MaxNow == 1

-----------------------------------------------------------------------------
(* JavaScript values. *)

Null == <<>>
Some(v) == <<v>>
IsNull(o) == o = <<>>
Val(o) == o[1]

\* A message: its literal text and the values interpolated into it.
Plain(text) == [text |-> text, args |-> <<>>]
Template(text, arg) == [text |-> text, args |-> <<arg>>]
\* JavaScript's truthiness of a message string: only "" is falsy.
Truthy(m) == ~(m.text = "" /\ m.args = <<>>)
\* a || b on message strings.
OrElse(a, b) == IF Truthy(a) THEN a ELSE b

-----------------------------------------------------------------------------
(* The backend, an external collaborator: what it may answer. *)

EventIds == {"1", "2"}
Titles == {"t1", "t2"}
\* The status codes a response may carry.
Statuses == {200, 404, 500}
\* response.ok
ResponseOk(status) == status >= 200 /\ status <= 299
\* The message of the error with which fetch() rejects.
NetworkErrors == {Plain("Failed to fetch"), Plain("")}
\* The message of the error with which response.json() rejects.
ParseErrors == {Plain("Unexpected token < in JSON")}
\* An event representation, and an RSVP.
EventPayloads == [id : EventIds, title : Titles]
RsvpLists == {<<>>, <<"r1">>}
\* The body of GET /events/{id}/rsvps: its rsvps field, which may be missing.
RsvpBodies == {Null} \cup {Some(l) : l \in RsvpLists}
\* The error field of an error body: "" stands for a body without one.
ErrorTexts == {Plain(""), Plain("Invalid event data")}
EventListPayloads == {<<>>} \cup {<<e>> : e \in EventPayloads}
\* A task representation, and the lists of tasks of an event.
TaskIds == {"k1", "k2"}
TaskPayloads == [id : TaskIds, completed : BOOLEAN]
TaskLists == {<<>>} \cup {<<t>> : t \in TaskPayloads}
\* The body of GET /events/{id}/tasks: its tasks and task_summary fields,
\* either of which may be missing.
TaskBodies ==
    {[tasks |-> l, task_summary |-> sum] :
        l \in {Null} \cup {Some(list) : list \in TaskLists},
        sum \in {Null, Some([total |-> 1])}}


-----------------------------------------------------------------------------
(* Requests in flight.  by: the function that issued the request and      *)
(* awaits it.  from: the component instance whose handler awaits  *)
(* the request ("page", "rsvpForm", "editForm", ...), or "gone" once that  *)
(* instance is unmounted: its continuation still runs, its own state       *)
(* updates are dropped, the callbacks it was given are still called; or    *)
(* "dead" once the page itself is unmounted.  eventId: the eventId prop of *)
(* the page instance in whose render the handler was created.              *)
(* A handler that awaits fetch() and then response.json() touches no state *)
(* between the two, so a request concludes in one step, with one of the    *)
(* outcomes: fetch() rejects, a status that is not ok, response.json()     *)
(* rejects, or the parsed body.                                            *)

Req(by, method, url, from, id) ==
    [by |-> by, method |-> method, url |-> url, from |-> from, eventId |-> id]
Send(n, r) == n (+) SetToBag({r})
Drop(n, r) == n (-) SetToBag({r})
InFlight == BagToSet(net)
\* The requests of an unmounted instance lose their owner.
Orphan(n, from) ==
    LET rs == BagToSet(n)
        moved(r) == [r EXCEPT !.from = "gone"]
    IN  [q \in {IF r.from = from THEN moved(r) ELSE r : r \in rs} |->
            (IF q \in rs /\ q.from # from THEN n[q] ELSE 0)
            + (IF q.from = "gone" /\ [q EXCEPT !.from = from] \in rs
               THEN n[[q EXCEPT !.from = from]] ELSE 0)]

\* The requests of an instance that is unmounted pass to the instance whose
\* callbacks their continuation still calls.
Reown(n, from, to) ==
    LET rs == BagToSet(n)
        moved(r) == [r EXCEPT !.from = to]
    IN  [q \in {IF r.from = from THEN moved(r) ELSE r : r \in rs} |->
            (IF q \in rs /\ q.from # from THEN n[q] ELSE 0)
            + (IF q.from = to /\ [q EXCEPT !.from = from] \in rs
               THEN n[[q EXCEPT !.from = from]] ELSE 0)]

RECURSIVE SumCopies(_, _)
SumCopies(rs, n) ==
    IF rs = {} THEN 0
    ELSE LET r == CHOOSE x \in rs : TRUE IN n[r] + SumCopies(rs \ {r}, n)
\* Unmounting the page leaves its requests, and its children's, in flight.
Unmounted(q) == [q EXCEPT !.from = "dead"]
UnmountedAll(n) ==
    [q \in {Unmounted(r) : r \in BagToSet(n)} |->
        SumCopies({r \in BagToSet(n) : Unmounted(r) = q}, n)]

\* The same when the instance is unmounted by the render, and not otherwise.
OrphanIf(unmounted, n, from) == IF unmounted THEN Orphan(n, from) ELSE n
ReownIf(unmounted, n, from, to) == IF unmounted THEN Reown(n, from, to) ELSE n

-----------------------------------------------------------------------------
(* The props each host passes. *)

NoProps == [name \in {} |-> ""]
\* props.name, "undefined" when the parent passes no such prop.
Prop(props, name) == IF name \in DOMAIN props THEN props[name] ELSE "undefined"

\* <Route path="/events/:id" element={<EventDetailPage />} /> passes nothing;
\* the demo App passes eventId={selectedEventId}.
EventDetailPageProps ==
    IF host = "router" THEN NoProps ELSE [eventId |-> routeId]

\* function EventDetailPage({ eventId })
eventId == Prop(EventDetailPageProps, "eventId")

\* <EditEventForm eventId={eventId} onEventUpdate={handleEventUpdate} onCancel=... />
EditEventFormProps ==
    [eventId |-> eventId, onEventUpdate |-> "handleEventUpdate", onCancel |-> "hideEditForm"]

\* <RSVPForm eventId={eventId} onRSVPSuccess={handleRSVPSuccess} onRSVPUpdate={handleRSVPUpdate} />
RSVPFormProps ==
    [eventId |-> eventId, onRSVPSuccess |-> "handleRSVPSuccess", onRSVPUpdate |-> "handleRSVPUpdate"]

\* <NewTaskForm eventId={eventId} onTaskCreated={handleTaskCreated} onCancel=... />
NewTaskFormProps ==
    [eventId |-> eventId, onTaskCreated |-> "handleTaskCreated", onCancel |-> "hideTaskForm"]

\* <TaskList tasks={tasks} taskSummary={taskSummary} onTaskToggle={handleTaskToggle}
\*           onTaskUpdate={handleTaskUpdate} loading={taskLoading} />
TaskListProps ==
    [onTaskToggle |-> "handleTaskToggle", onTaskUpdate |-> "handleTaskUpdate"]

\* <EditTaskForm task={task} eventId={task.event_id} onCancel={handleCancelEdit}
\*               onTaskUpdate={() => { handleCancelEdit(); onTaskUpdate(); }} />
EditTaskFormProps ==
    [onCancel |-> "handleCancelEdit", onTaskUpdate |-> "cancelEditAndUpdate"]

-----------------------------------------------------------------------------
(* The state of the mounted page as a record, so that a handler is a       *)
(* function from state to state and handlers compose as the code calls     *)
(* them.                                                                   *)

Cur ==
    [event |-> event, events |-> events, loading |-> loading, error |-> error,
     showRSVPForm |-> showRSVPForm, showEditForm |-> showEditForm,
     rsvps |-> rsvps, rsvpLoading |-> rsvpLoading,
     editInitial |-> editInitial, editError |-> editError,
     showTaskForm |-> showTaskForm, tasks |-> tasks, taskSummary |-> taskSummary,
     taskLoading |-> taskLoading, editingTaskId |-> editingTaskId,
     processingTasks |-> processingTasks, deleteLoading |-> deleteLoading,
     net |-> net]

\* The render branches with the test of the event before the test of the error.
RenderOf_EventFirst(s) ==
    IF s.loading THEN "loading"
    ELSE IF ~IsNull(s.event) THEN "body"
    ELSE IF ~IsNull(s.error) /\ Truthy(Val(s.error)) THEN "error"
    ELSE "body"

\* What the page renders: if (loading) ...; if (error) ...; else the body
\* (the detail container, or the list).
RenderOf(s) ==
    IF s.loading THEN "loading"
    ELSE IF ~IsNull(s.error) /\ Truthy(Val(s.error)) THEN "error"
    ELSE "body"
Render == RenderOf(Cur)

\* {showRSVPForm && <RSVPForm .../>} and {showEditForm && <EditEventForm .../>}
RSVPFormMountedIn(s) == page = "detail" /\ RenderOf(s) = "body" /\ s.showRSVPForm
EditFormMountedIn(s) == page = "detail" /\ RenderOf(s) = "body" /\ s.showEditForm

\* What a mounted EditEventForm renders: if (!initialValues) return
\* <div>Loading event data...</div>; else the form.
EditEventForm_RenderOf(s) == IF IsNull(s.editInitial) THEN "loading" ELSE "form"
\* {submitError && <div className="error-banner">...</div>}, inside the form.
EditEventForm_BannerOf(s) ==
    IF EditEventForm_RenderOf(s) = "form" /\ ~IsNull(s.editError) /\ Truthy(Val(s.editError))
    THEN s.editError ELSE Null

\* {showTaskForm && <NewTaskForm .../>}
NewTaskFormMountedIn(s) == page = "detail" /\ RenderOf(s) = "body" /\ s.showTaskForm
\* {(tasks.length > 0 || taskSummary) && <TaskList .../>}
TaskListMountedIn(s) ==
    /\ page = "detail" /\ RenderOf(s) = "body"
    /\ (Len(s.tasks) > 0 \/ ~IsNull(s.taskSummary))
\* TaskList: if (loading) return ...; if (!tasks || tasks.length === 0) return ...;
\* then the tasks with their buttons.
TaskListShowsTasksIn(s) == TaskListMountedIn(s) /\ ~s.taskLoading /\ Len(s.tasks) > 0
\* tasks.find(t => t.id === taskId)
FindTask(list, taskId) ==
    LET found == {i \in DOMAIN list : list[i].id = taskId}
    IN  IF found = {} THEN Null ELSE Some(list[CHOOSE i \in found : \A j \in found : i <= j])
\* {editingTaskId && (() => { ...; if (!task) return null; return <EditTaskForm .../> })()}
EditTaskFormMountedIn(s) ==
    /\ TaskListShowsTasksIn(s)
    /\ ~IsNull(s.editingTaskId)
    /\ ~IsNull(FindTask(s.tasks, Val(s.editingTaskId)))


-----------------------------------------------------------------------------
(* EventDetailPage: fetchEvent. *)

\* The synchronous part: setLoading(true); setError(null); fetch(...).
fetchEvent(s) ==
    [s EXCEPT !.loading = TRUE,
              !.error = Null,
              !.net = Send(@, Req("fetchEvent", "GET", <<"events", eventId>>, "page", eventId))]

\* fetchEvent's throw without the 404 branch.
fetchEventThrow_No404(status) == Template("HTTP error! status: ", status)

\* if (!response.ok) { if (response.status === 404) throw ...; throw ... }
fetchEventThrow(status) ==
    IF status = 404 THEN Plain("Event not found")
    ELSE Template("HTTP error! status: ", status)

\* fetchEvent's catch without the fallback message.
fetchEventCatch_NoFallback(s, err) == [s EXCEPT !.error = Some(err)]

\* fetchEvent's catch calling fetchEvent() again.
fetchEventCatch_Retry(s, err) ==
    [fetchEvent(s) EXCEPT !.error = Some(OrElse(err, Plain("Failed to load event")))]

\* catch (err) { setError(err.message || 'Failed to load event') }
fetchEventCatch(s, err) ==
    [s EXCEPT !.error = Some(OrElse(err, Plain("Failed to load event")))]

\* fetchEvent's try block without its setEvent(eventData).
fetchEventThen_Missing(s, eventData) == s

\* setEvent(eventData)
fetchEventThen(s, eventData) == [s EXCEPT !.event = Some(eventData)]

\* setLoading(false) as the last statement of the try block, not in a finally.
fetchEventFinally_OnlyOnSuccess(s) ==
    IF IsNull(s.error) THEN [s EXCEPT !.loading = FALSE] ELSE s

\* finally { setLoading(false) }
fetchEventFinally(s) == [s EXCEPT !.loading = FALSE]

-----------------------------------------------------------------------------
(* EventDetailPage: fetchEventRSVPs and the RSVP callbacks. *)

fetchEventRSVPs(s) ==
    [s EXCEPT !.rsvpLoading = TRUE,
              !.net = Send(@, Req("fetchEventRSVPs", "GET",
                                  <<"events", eventId, "rsvps">>, "page", eventId))]

\* setRsvps(data.rsvps || [])
fetchEventRSVPsThen(s, data) ==
    [s EXCEPT !.rsvps = IF IsNull(data) THEN <<>> ELSE Val(data)]

fetchEventRSVPsFinally(s) == [s EXCEPT !.rsvpLoading = FALSE]

handleRSVPSuccess(s, newRsvp) ==
    [fetchEventRSVPs(fetchEvent(s)) EXCEPT !.showRSVPForm = FALSE]

handleRSVPUpdate(s) == fetchEventRSVPs(s)

\* setEvent(updatedEvent); setShowEditForm(false)
handleEventUpdate(s, updatedEvent) ==
    [s EXCEPT !.event = Some(updatedEvent), !.showEditForm = FALSE]

\* handleDeleteEvent without its finally.
handleDeleteEventFinally_Missing(s) == s

\* handleDeleteEvent: if (!window.confirm(...)) return; then
\* setDeleteLoading(true) and fetch(`.../events/${eventId}`, { method: 'DELETE' }).
handleDeleteEvent(s, confirmed) ==
    IF ~confirmed THEN s
    ELSE [s EXCEPT !.deleteLoading = TRUE,
                   !.net = Send(@, Req("handleDeleteEvent", "DELETE",
                                       <<"events", eventId>>, "page", eventId))]

\* response.ok: alert(...); window.history.back().  The hosts push no history
\* entry, so that going back changes no state of the page: it does nothing,
\* or the browser leaves the document after the handler has returned.
handleDeleteEventThen(s) == s

\* !response.ok, or a rejection of fetch() or of response.json(): alert(...).
handleDeleteEventCatch(s) == s

\* finally { setDeleteLoading(false) }
handleDeleteEventFinally(s) == [s EXCEPT !.deleteLoading = FALSE]

fetchEventTasks(s) ==
    [s EXCEPT !.taskLoading = TRUE,
              !.net = Send(@, Req("fetchEventTasks", "GET",
                                  <<"events", eventId, "tasks">>, "page", eventId))]

\* setTasks(data.tasks || []); setTaskSummary(data.task_summary || null)
fetchEventTasksThen(s, data) ==
    [s EXCEPT !.tasks = IF IsNull(data.tasks) THEN <<>> ELSE Val(data.tasks),
              !.taskSummary = data.task_summary]

fetchEventTasksFinally(s) == [s EXCEPT !.taskLoading = FALSE]

\* fetchEventTasks(); setShowTaskForm(false)
handleTaskCreated(s, newTask) == [fetchEventTasks(s) EXCEPT !.showTaskForm = FALSE]

handleTaskUpdate(s) == fetchEventTasks(s)

\* setTasks(prevTasks => prevTasks.map(...)); fetchEventTasks()
handleTaskToggle(s, updatedTask) ==
    fetchEventTasks([s EXCEPT !.tasks =
        [i \in DOMAIN @ |-> IF @[i].id = updatedTask.id THEN updatedTask ELSE @[i]]])

\* TaskList: setEditingTaskId(taskId), setEditingTaskId(null)
handleEditTask(s, taskId) == [s EXCEPT !.editingTaskId = Some(taskId)]
handleCancelEdit(s) == [s EXCEPT !.editingTaskId = Null]

\* A handler of the page, called by the name under which it was passed down.
Invoke(handler, s, arg) ==
    CASE handler = "handleRSVPSuccess" -> handleRSVPSuccess(s, arg)
      [] handler = "handleRSVPUpdate" -> handleRSVPUpdate(s)
      [] handler = "handleEventUpdate" -> handleEventUpdate(s, arg)
      [] handler = "hideEditForm" -> [s EXCEPT !.showEditForm = FALSE]
      [] handler = "handleTaskCreated" -> handleTaskCreated(s, arg)
      [] handler = "handleTaskUpdate" -> handleTaskUpdate(s)
      [] handler = "handleTaskToggle" -> handleTaskToggle(s, arg)
      [] handler = "hideTaskForm" -> [s EXCEPT !.showTaskForm = FALSE]
      [] handler = "handleCancelEdit" -> handleCancelEdit(s)

\* if (props.name) props.name(arg)
Call(props, name, s, arg) ==
    IF name \in DOMAIN props THEN Invoke(props[name], s, arg) ELSE s

-----------------------------------------------------------------------------
(* EventsPage: fetchEvents. *)

fetchEvents(s) ==
    [s EXCEPT !.loading = TRUE,
              !.error = Null,
              !.net = Send(@, Req("fetchEvents", "GET", <<"events">>, "page", eventId))]

\* catch (err) { setError('Failed to load events. Please try again later.') }
fetchEventsCatch(s, err) ==
    [s EXCEPT !.error = Some(Plain("Failed to load events. Please try again later."))]

\* setEvents(prev => [...prev, ...eventsData]) in place of setEvents(eventsData).
fetchEventsThen_Append(s, eventsData) == [s EXCEPT !.events = @ \o eventsData]

\* setEvents(eventsData)
fetchEventsThen(s, eventsData) == [s EXCEPT !.events = eventsData]

fetchEventsFinally(s) == [s EXCEPT !.loading = FALSE]


-----------------------------------------------------------------------------
(* The child forms as the page sees them: their requests, their own error  *)
(* banner and the callbacks they call.  Their fields and validation are    *)
(* modelled with the forms below; here a submit is one that passed         *)
(* validation.                                                             *)

\* A state update of a child instance is dropped once the instance is gone.
IfMounted(r, updated, s) == IF r.from = "gone" THEN s ELSE updated

\* EditEventForm, useEffect: fetchEventDetails().
EditEventForm_fetchEventDetails(s) ==
    [s EXCEPT !.net = Send(@, Req("fetchEventDetails", "GET",
                 <<"events", Prop(EditEventFormProps, "eventId")>>, "editForm", eventId))]

\* setInitialValues({ title: eventData.title, ... })
EditEventForm_fetchEventDetailsThen(s, eventData) ==
    [s EXCEPT !.editInitial = Some(eventData)]

\* catch (error) { setSubmitError('Failed to load event data.') }
EditEventForm_fetchEventDetailsCatch(s) ==
    [s EXCEPT !.editError = Some(Plain("Failed to load event data."))]

\* setSubmitError(null); fetch(..., { method: 'PATCH', ... })
EditEventForm_handleSubmit(s) ==
    [s EXCEPT !.editError = Null,
              !.net = Send(@, Req("EditEventForm.handleSubmit", "PATCH",
                 <<"events", Prop(EditEventFormProps, "eventId")>>, "editForm", eventId))]

\* throw new Error(errorData.error || 'Failed to update event')
EditEventForm_handleSubmitThrow(errorText) ==
    OrElse(errorText, Plain("Failed to update event"))

\* if (onEventUpdated) { onEventUpdated(updatedEvent) }
EditEventForm_handleSubmitThen(props, s, updatedEvent) ==
    Call(props, "onEventUpdated", s, updatedEvent)

\* catch (error) { setSubmitError(error.message || 'Failed to update event. Please try again.') }
EditEventForm_handleSubmitCatch(s, err) ==
    [s EXCEPT !.editError =
        Some(OrElse(err, Plain("Failed to update event. Please try again.")))]

\* RSVPForm.handleSubmit: fetch('http://localhost:5000/rsvps', { method: 'POST', ... })
RSVPForm_handleSubmit(s) ==
    [s EXCEPT !.net = Send(@, Req("RSVPForm.handleSubmit", "POST", <<"rsvps">>, "rsvpForm", eventId))]

\* if (onRSVPSuccess) onRSVPSuccess(responseData); if (onRSVPUpdate) onRSVPUpdate()
RSVPForm_handleSubmitThen(props, s, responseData) ==
    Call(props, "onRSVPUpdate", Call(props, "onRSVPSuccess", s, responseData), Null)

\* NewTaskForm.handleSubmit: fetch('http://localhost:5000/tasks', { method: 'POST', ... })
NewTaskForm_handleSubmit(s) ==
    [s EXCEPT !.net = Send(@, Req("NewTaskForm.handleSubmit", "POST", <<"tasks">>, "taskForm", eventId))]

\* if (onTaskCreated) { onTaskCreated(responseData) }
NewTaskForm_handleSubmitThen(props, s, responseData) ==
    Call(props, "onTaskCreated", s, responseData)

\* EditTaskForm.handleSubmit: fetch(`http://localhost:5000/tasks/${task.id}`, { method: 'PATCH', ... })
EditTaskForm_handleSubmit(s, task) ==
    [s EXCEPT !.net = Send(@, Req("EditTaskForm.handleSubmit", "PATCH",
                                  <<"tasks", task.id>>, "editTaskForm", eventId))]

\* TaskList: onTaskUpdate={() => { handleCancelEdit(); onTaskUpdate(); }}, whose
\* setEditingTaskId is dropped once the TaskList is gone.
TaskList_onEditTaskUpdate(props, s, listMounted) ==
    Call(props, "onTaskUpdate", IF listMounted THEN handleCancelEdit(s) ELSE s, Null)

\* if (onTaskUpdate) { onTaskUpdate(updatedTask) }
EditTaskForm_handleSubmitThen(props, s, listMounted) ==
    IF "onTaskUpdate" \in DOMAIN props
    THEN TaskList_onEditTaskUpdate(TaskListProps, s, listMounted)
    ELSE s

\* TaskList.handleTaskToggle up to its await.
TaskList_handleTaskToggle(s, taskId) ==
    [s EXCEPT !.processingTasks = @ \cup {taskId},
              !.net = Send(@, Req("TaskList.handleTaskToggle", "PATCH",
                                  <<"tasks", taskId, "toggle">>, "taskList", eventId))]

\* if (onTaskToggle) onTaskToggle(updatedTask); if (onTaskUpdate) onTaskUpdate()
TaskList_handleTaskToggleThen(props, s, updatedTask) ==
    Call(props, "onTaskUpdate", Call(props, "onTaskToggle", s, updatedTask), Null)

\* finally { setProcessingTasks(prev => { ...; newSet.delete(taskId); ... }) }
TaskList_handleTaskToggleFinally(s, taskId) ==
    [s EXCEPT !.processingTasks = @ \ {taskId}]

\* TaskList.handleDeleteTask up to its await.
TaskList_handleDeleteTask(s, taskId) ==
    [s EXCEPT !.net = Send(@, Req("TaskList.handleDeleteTask", "DELETE",
                                  <<"tasks", taskId>>, "taskList", eventId))]

\* if (onTaskDelete) onTaskDelete(taskId); if (onTaskUpdate) onTaskUpdate()
TaskList_handleDeleteTaskThen(props, s, taskId) ==
    Call(props, "onTaskUpdate", Call(props, "onTaskDelete", s, taskId), Null)

\* isSubmitting of the mounted instance: from setIsSubmitting(true), or Formik's
\* submit, to the finally of the same handleSubmit.
IsSubmitting(by, from) ==
    \E r \in InFlight : r.by = by /\ r.from = from

-----------------------------------------------------------------------------
(* Rendering after a handler: React unmounts a child whose condition       *)
(* became false (its requests stay in flight, owned by nobody) and mounts  *)
(* a fresh instance when it becomes true again; a fresh EditEventForm runs *)
(* its mount effect.                                                       *)

Reconcile(s) ==
    LET wasE == EditFormMountedIn(Cur)
        isE  == EditFormMountedIn(s)
        isL  == TaskListMountedIn(s)
        n1 == OrphanIf(RSVPFormMountedIn(Cur) /\ ~RSVPFormMountedIn(s), s.net, "rsvpForm")
        n2 == OrphanIf(wasE /\ ~isE, n1, "editForm")
        n3 == OrphanIf(NewTaskFormMountedIn(Cur) /\ ~NewTaskFormMountedIn(s), n2, "taskForm")
        n4 == ReownIf(EditTaskFormMountedIn(Cur) /\ ~EditTaskFormMountedIn(s), n3,
                      "editTaskForm", "taskList")
        n5 == OrphanIf(~isL, n4, "taskList")
        t == [s EXCEPT !.net = n5,
                       !.editInitial = IF wasE /\ isE THEN @ ELSE Null,
                       !.editError = IF wasE /\ isE THEN @ ELSE Null,
                       !.editingTaskId = IF isL THEN @ ELSE Null,
                       !.processingTasks = IF isL THEN @ ELSE {}]
    IN  IF ~wasE /\ isE THEN EditEventForm_fetchEventDetails(t) ELSE t

\* The handler part that runs in a step: the function (or "user" for a click,
\* "effect" for a mount effect), how it went, and the status and event it got.
Label(by, outcome, from, status, data) ==
    [by |-> by, outcome |-> outcome, from |-> from, status |-> status, data |-> data]
User(action) == Label("user", action, "", 0, Null)
Outcome(r, outcome) == Label(r.by, outcome, r.from, 0, Null)

\* The page's state variables take the values of record t.
Assign(t) ==
        /\ event' = t.event
        /\ events' = t.events
        /\ loading' = t.loading
        /\ error' = t.error
        /\ showRSVPForm' = t.showRSVPForm
        /\ showEditForm' = t.showEditForm
        /\ rsvps' = t.rsvps
        /\ rsvpLoading' = t.rsvpLoading
        /\ editInitial' = t.editInitial
        /\ editError' = t.editError
        /\ showTaskForm' = t.showTaskForm
        /\ tasks' = t.tasks
        /\ taskSummary' = t.taskSummary
        /\ taskLoading' = t.taskLoading
        /\ editingTaskId' = t.editingTaskId
        /\ processingTasks' = t.processingTasks
        /\ deleteLoading' = t.deleteLoading
        /\ net' = t.net

\* The state after a handler part that leaves the page in state s.
CommitPage(s, label) ==
    /\ Assign(Reconcile(s))
    /\ last' = label
    /\ UNCHANGED <<host, page, routeId>>
    /\ UNCHANGED formVars

\* The same for a step in which the server, where it is followed, does nothing.
Commit(s, label) == CommitPage(s, label) /\ UNCHANGED serverVars

\* The page state with request r taken out of flight.
Without(r) == [Cur EXCEPT !.net = Drop(@, r)]

\* A request as a handler of the unmounted page that awaited r issues it:
\* with the eventId of that page's last render.
IssuedByDead(r, q) ==
    [q EXCEPT !.from = "dead",
              !.eventId = r.eventId,
              !.url = IF Len(@) >= 2 /\ @[1] = "events" THEN [@ EXCEPT ![2] = r.eventId]
                      ELSE @]

\* The state updates of an unmounted page applied to the page now mounted.
Settle_Applied(r, s) == s

\* The continuation of request r leaves the page in state s, if the page that
\* awaited r is still mounted; if not, React drops its state updates, and the
\* requests it issues go out all the same.
Settle(r, s) ==
    IF r.from # "dead" THEN s
    ELSE LET issued == s.net (-) Drop(net, r)
             dead == [q \in {IssuedByDead(r, i) : i \in BagToSet(issued)} |->
                         SumCopies({i \in BagToSet(issued) : IssuedByDead(r, i) = q},
                                   issued)]
         IN  [Without(r) EXCEPT !.net = @ (+) dead]

\* The state after the continuation of request r.
Conclude(r, s, label) == Commit(Settle(r, s), label)

Sent(by) == {r \in InFlight : r.by = by}

\* What the backend may answer to a read of /events/{id}: it knows "1" and "2".
ReadStatuses(url) ==
    IF url[2] \in EventIds THEN Statuses ELSE {st \in Statuses : ~ResponseOk(st)}
OkStatuses(sts) == {st \in sts : ResponseOk(st)}
ErrorStatuses(sts) == {st \in sts : ~ResponseOk(st)}
EventOf(url) == {e \in EventPayloads : e.id = url[2]}

-----------------------------------------------------------------------------
(* Actions of the event detail page. *)

\* useEffect(() => { fetchEvent() }, [eventId]) on mount.
MountDetail ==
    /\ page = "detail" /\ ~mounted
    /\ mounted' = TRUE
    /\ UNCHANGED ops
    /\ Commit(fetchEvent(Cur), Label("effect", "mount", "", 0, Null))

\* <button onClick={fetchEvent}>Try Again</button> of the error branch.
RetryFetchEvent ==
    /\ page = "detail" /\ mounted /\ Render = "error"
    /\ ops < MaxOps
    /\ ops' = ops + 1
    /\ UNCHANGED mounted
    /\ Commit(fetchEvent(Cur), User("retry"))

\* fetch() rejects: catch, finally.
FetchEventRejected ==
    \E r \in Sent("fetchEvent"), err \in NetworkErrors :
        /\ UNCHANGED <<mounted, ops>>
        /\ Conclude(r, fetchEventFinally(fetchEventCatch(Without(r), err)),
                  Outcome(r, "rejected"))

\* A response with !response.ok: throw, catch, finally.
FetchEventHttpError ==
    \E r \in Sent("fetchEvent") :
      \E status \in ErrorStatuses(ReadStatuses(r.url)) :
        /\ UNCHANGED <<mounted, ops>>
        /\ Conclude(r, fetchEventFinally(fetchEventCatch(Without(r), fetchEventThrow(status))),
                  Label(r.by, "httpError", r.from, status, Null))

\* response.ok, and response.json() rejects: catch, finally.
FetchEventParseFailed ==
    \E r \in Sent("fetchEvent"), err \in ParseErrors :
        /\ OkStatuses(ReadStatuses(r.url)) # {}
        /\ UNCHANGED <<mounted, ops>>
        /\ Conclude(r, fetchEventFinally(fetchEventCatch(Without(r), err)),
                  Outcome(r, "parseFailed"))

\* response.ok, and response.json() resolves: setEvent(eventData), finally.
FetchEventSucceeded ==
    \E r \in Sent("fetchEvent") :
      \E eventData \in EventOf(r.url) :
        /\ OkStatuses(ReadStatuses(r.url)) # {}
        /\ UNCHANGED <<mounted, ops>>
        /\ Conclude(r, fetchEventFinally(fetchEventThen(Without(r), eventData)),
                  Label(r.by, "ok", r.from, 200, Some(eventData)))

\* <button onClick={fetchEventRSVPs} disabled={rsvpLoading}>View RSVPs</button>
ViewRSVPs ==
    /\ page = "detail" /\ Render = "body" /\ ~rsvpLoading
    /\ ops < MaxOps
    /\ ops' = ops + 1
    /\ UNCHANGED mounted
    /\ Commit(fetchEventRSVPs(Cur), User("viewRSVPs"))

\* fetch() or response.json() rejects, or !response.ok: nothing but the finally.
FetchEventRSVPsFailed ==
    \E r \in Sent("fetchEventRSVPs") :
        /\ UNCHANGED <<mounted, ops>>
        /\ Conclude(r, fetchEventRSVPsFinally(Without(r)), Outcome(r, "failed"))

FetchEventRSVPsSucceeded ==
    \E r \in Sent("fetchEventRSVPs"), data \in RsvpBodies :
        /\ OkStatuses(ReadStatuses(r.url)) # {}
        /\ UNCHANGED <<mounted, ops>>
        /\ Conclude(r, fetchEventRSVPsFinally(fetchEventRSVPsThen(Without(r), data)),
                  Outcome(r, "ok"))

\* onClick={() => setShowRSVPForm(!showRSVPForm)}
ToggleRSVPForm ==
    /\ page = "detail" /\ Render = "body"
    /\ UNCHANGED <<mounted, ops>>
    /\ Commit([Cur EXCEPT !.showRSVPForm = ~@], User("toggleRSVPForm"))

\* onClick={() => setShowEditForm(!showEditForm)}, and the form's Cancel;
\* showing the form mounts it, which issues its read.
ToggleEditForm ==
    /\ page = "detail" /\ Render = "body"
    /\ showEditForm \/ ops < MaxOps
    /\ ops' = IF showEditForm THEN ops ELSE ops + 1
    /\ UNCHANGED mounted
    /\ Commit([Cur EXCEPT !.showEditForm = ~@], User("toggleEditForm"))

\* <button onClick={handleDeleteEvent} disabled={deleteLoading}>Delete Event</button>
\* with either answer to window.confirm.
DeleteEvent ==
    /\ page = "detail" /\ Render = "body" /\ ~deleteLoading
    /\ UNCHANGED mounted
    /\ \E confirmed \in BOOLEAN :
         /\ confirmed => ops < MaxOps
         /\ ops' = IF confirmed THEN ops + 1 ELSE ops
         /\ Commit(handleDeleteEvent(Cur, confirmed),
                   User(IF confirmed THEN "deleteEvent" ELSE "declineDelete"))

\* fetch() or response.json() rejects, or !response.ok: alert, finally.
DeleteEventFailed ==
    \E r \in Sent("handleDeleteEvent") :
        /\ UNCHANGED <<mounted, ops>>
        /\ Conclude(r, handleDeleteEventFinally(handleDeleteEventCatch(Without(r))),
                  Outcome(r, "failed"))

\* response.ok: alert, history.back(), finally.
DeleteEventSucceeded ==
    \E r \in Sent("handleDeleteEvent") :
        /\ UNCHANGED <<mounted, ops>>
        /\ Conclude(r, handleDeleteEventFinally(handleDeleteEventThen(Without(r))),
                  Outcome(r, "ok"))

-----------------------------------------------------------------------------
(* Actions of the tasks of the detail page: the page's buttons, the          *)
(* new-task form and the task list with its edit form.                     *)

\* <button onClick={fetchEventTasks} disabled={taskLoading}>View Tasks</button>
ViewTasks ==
    /\ page = "detail" /\ Render = "body" /\ ~taskLoading
    /\ ops < MaxOps
    /\ ops' = ops + 1
    /\ UNCHANGED mounted
    /\ Commit(fetchEventTasks(Cur), User("viewTasks"))

\* fetch() or response.json() rejects, or !response.ok: nothing but the finally.
FetchEventTasksFailed ==
    \E r \in Sent("fetchEventTasks") :
        /\ UNCHANGED <<mounted, ops>>
        /\ Conclude(r, fetchEventTasksFinally(Without(r)), Outcome(r, "failed"))

FetchEventTasksSucceeded ==
    \E r \in Sent("fetchEventTasks"), data \in TaskBodies :
        /\ OkStatuses(ReadStatuses(r.url)) # {}
        /\ UNCHANGED <<mounted, ops>>
        /\ Conclude(r, fetchEventTasksFinally(fetchEventTasksThen(Without(r), data)),
                  Outcome(r, "ok"))

\* onClick={() => setShowTaskForm(!showTaskForm)}, and the form's Cancel.
ToggleTaskForm ==
    /\ page = "detail" /\ Render = "body"
    /\ UNCHANGED <<mounted, ops>>
    /\ Commit([Cur EXCEPT !.showTaskForm = ~@], User("toggleTaskForm"))

\* A submit that passes TaskValidationSchema; the button is disabled={isSubmitting}.
SubmitNewTask ==
    /\ NewTaskFormMountedIn(Cur)
    /\ ~IsSubmitting("NewTaskForm.handleSubmit", "taskForm")
    /\ ops < MaxOps
    /\ ops' = ops + 1
    /\ UNCHANGED mounted
    /\ Commit(NewTaskForm_handleSubmit(Cur), User("submitNewTask"))

\* fetch() or response.json() rejects, or !response.ok: the form's own status.
NewTaskFailed ==
    \E r \in Sent("NewTaskForm.handleSubmit") :
        /\ UNCHANGED <<mounted, ops>>
        /\ Conclude(r, Without(r), Outcome(r, "failed"))

\* response.ok: the callback the page passed.
NewTaskSucceeded ==
    \E r \in Sent("NewTaskForm.handleSubmit") :
        /\ UNCHANGED <<mounted, ops>>
        /\ Conclude(r, NewTaskForm_handleSubmitThen(NewTaskFormProps, Without(r), Null),
                  Outcome(r, "ok"))

\* <button onClick={() => handleTaskToggle(task.id)} disabled={processing}>
ToggleTask ==
    /\ TaskListShowsTasksIn(Cur)
    /\ ops < MaxOps
    /\ ops' = ops + 1
    /\ UNCHANGED mounted
    /\ \E i \in DOMAIN tasks :
         /\ tasks[i].id \notin processingTasks
         /\ Commit(TaskList_handleTaskToggle(Cur, tasks[i].id), User("toggleTask"))

\* fetch() or response.json() rejects, or !response.ok: nothing but the finally.
ToggleTaskFailed ==
    \E r \in Sent("TaskList.handleTaskToggle") :
        /\ UNCHANGED <<mounted, ops>>
        /\ Conclude(r, IfMounted(r, TaskList_handleTaskToggleFinally(Without(r), r.url[2]),
                            Without(r)),
                  Outcome(r, "failed"))

\* response.ok: const updatedTask = await response.json(); the callbacks, finally.
ToggleTaskSucceeded ==
    \E r \in Sent("TaskList.handleTaskToggle") :
      \E updatedTask \in {t \in TaskPayloads : t.id = r.url[2]} :
        /\ UNCHANGED <<mounted, ops>>
        /\ LET called == TaskList_handleTaskToggleThen(TaskListProps, Without(r), updatedTask)
           IN  Conclude(r, IfMounted(r, TaskList_handleTaskToggleFinally(called, r.url[2]), called),
                      Label(r.by, "ok", r.from, 200, Some(updatedTask)))

\* <button onClick={() => handleEditTask(task.id)} disabled={processing}>Edit</button>
EditTask ==
    /\ TaskListShowsTasksIn(Cur)
    /\ UNCHANGED <<mounted, ops>>
    /\ \E i \in DOMAIN tasks :
         /\ tasks[i].id \notin processingTasks
         /\ editingTaskId # Some(tasks[i].id)
         /\ Commit(handleEditTask(Cur, tasks[i].id), User("editTask"))

\* The Cancel button of the edit form: onCancel={handleCancelEdit}.
CancelEdit ==
    /\ EditTaskFormMountedIn(Cur)
    /\ UNCHANGED <<mounted, ops>>
    /\ Commit(Invoke(EditTaskFormProps.onCancel, Cur, Null), User("cancelEdit"))

\* A submit that passes the edit form's validationSchema; the button is
\* disabled={isSubmitting}.
SubmitEditTask ==
    /\ EditTaskFormMountedIn(Cur)
    /\ ~IsSubmitting("EditTaskForm.handleSubmit", "editTaskForm")
    /\ ops < MaxOps
    /\ ops' = ops + 1
    /\ UNCHANGED mounted
    /\ Commit(EditTaskForm_handleSubmit(Cur, Val(FindTask(tasks, Val(editingTaskId)))),
              User("submitEditTask"))

\* fetch() or response.json() rejects, or !response.ok: the form's own status.
EditTaskFailed ==
    \E r \in Sent("EditTaskForm.handleSubmit") :
        /\ UNCHANGED <<mounted, ops>>
        /\ Conclude(r, Without(r), Outcome(r, "failed"))

\* response.ok: the callback the task list passed.
EditTaskSucceeded ==
    \E r \in Sent("EditTaskForm.handleSubmit") :
        /\ UNCHANGED <<mounted, ops>>
        /\ Conclude(r, EditTaskForm_handleSubmitThen(EditTaskFormProps, Without(r), r.from # "gone"),
                  Outcome(r, "ok"))

\* <button onClick={() => handleDeleteTask(task.id)} disabled={processing}>Delete</button>
DeleteTask ==
    /\ TaskListShowsTasksIn(Cur)
    /\ ops < MaxOps
    /\ ops' = ops + 1
    /\ UNCHANGED mounted
    /\ \E i \in DOMAIN tasks :
         /\ tasks[i].id \notin processingTasks
         /\ Commit(TaskList_handleDeleteTask(Cur, tasks[i].id), User("deleteTask"))

\* fetch() rejects, or !response.ok: nothing but console.error.
DeleteTaskFailed ==
    \E r \in Sent("TaskList.handleDeleteTask") :
        /\ UNCHANGED <<mounted, ops>>
        /\ Conclude(r, Without(r), Outcome(r, "failed"))

\* response.ok: the callbacks.
DeleteTaskSucceeded ==
    \E r \in Sent("TaskList.handleDeleteTask") :
        /\ UNCHANGED <<mounted, ops>>
        /\ Conclude(r, TaskList_handleDeleteTaskThen(TaskListProps, Without(r), r.url[2]),
                  Outcome(r, "ok"))

-----------------------------------------------------------------------------
(* Actions of the RSVP form shown in the detail page. *)

\* A submit that passes validateForm(); the button is disabled={isSubmitting}.
SubmitRSVP ==
    /\ RSVPFormMountedIn(Cur)
    /\ ~IsSubmitting("RSVPForm.handleSubmit", "rsvpForm")
    /\ ops < MaxOps
    /\ ops' = ops + 1
    /\ UNCHANGED mounted
    /\ Commit(RSVPForm_handleSubmit(Cur), User("submitRSVP"))

\* fetch() or response.json() rejects, or !response.ok: the form's own banner.
RSVPFailed ==
    \E r \in Sent("RSVPForm.handleSubmit") :
        /\ UNCHANGED <<mounted, ops>>
        /\ Conclude(r, Without(r), Outcome(r, "failed"))

\* response.ok: the callbacks the page passed.
RSVPSucceeded ==
    \E r \in Sent("RSVPForm.handleSubmit") :
        /\ UNCHANGED <<mounted, ops>>
        /\ Conclude(r, RSVPForm_handleSubmitThen(RSVPFormProps, Without(r), Null), Outcome(r, "ok"))

-----------------------------------------------------------------------------
(* Actions of the edit-event form shown in the detail page. *)

\* fetchEventDetails fails: fetch() or response.json() rejects, or !response.ok.
EditLoadFailed ==
    \E r \in Sent("fetchEventDetails") :
        /\ UNCHANGED <<mounted, ops>>
        /\ Conclude(r, IfMounted(r, EditEventForm_fetchEventDetailsCatch(Without(r)), Without(r)),
                  Outcome(r, "failed"))

EditLoadSucceeded ==
    \E r \in Sent("fetchEventDetails") :
      \E eventData \in EventOf(r.url) :
        /\ OkStatuses(ReadStatuses(r.url)) # {}
        /\ UNCHANGED <<mounted, ops>>
        /\ Conclude(r, IfMounted(r, EditEventForm_fetchEventDetailsThen(Without(r), eventData),
                            Without(r)),
                  Outcome(r, "ok"))

\* A submit that passes the validation schema; the form is rendered once
\* initialValues is set, its button is disabled={isSubmitting}.
SubmitEditEvent ==
    /\ EditFormMountedIn(Cur)
    /\ ~IsNull(editInitial)
    /\ ~IsSubmitting("EditEventForm.handleSubmit", "editForm")
    /\ ops < MaxOps
    /\ ops' = ops + 1
    /\ UNCHANGED mounted
    /\ Commit(EditEventForm_handleSubmit(Cur), User("submitEditEvent"))

\* The PATCH fails with message err: catch.
EditPatchFailed ==
    \E r \in Sent("EditEventForm.handleSubmit") :
      \E err \in NetworkErrors \cup ParseErrors
                  \cup {EditEventForm_handleSubmitThrow(t) : t \in ErrorTexts} :
        /\ UNCHANGED <<mounted, ops>>
        /\ Conclude(r, IfMounted(r, EditEventForm_handleSubmitCatch(Without(r), err), Without(r)),
                  Outcome(r, "failed"))

\* response.ok: const updatedEvent = await response.json(); then the callback.
EditPatchSucceeded ==
    \E r \in Sent("EditEventForm.handleSubmit") :
      \E updatedEvent \in EventOf(r.url) :
        /\ UNCHANGED <<mounted, ops>>
        /\ Conclude(r, EditEventForm_handleSubmitThen(EditEventFormProps, Without(r), updatedEvent),
                  Label(r.by, "ok", r.from, 200, Some(updatedEvent)))

-----------------------------------------------------------------------------
(* Actions of the events list page. *)

\* useEffect(() => { fetchEvents() }, []) on mount.
MountList ==
    /\ page = "list" /\ ~mounted
    /\ mounted' = TRUE
    /\ UNCHANGED ops
    /\ Commit(fetchEvents(Cur), Label("effect", "mount", "", 0, Null))

\* handleRefresh: the Try Again button of the error branch, Refresh of the body.
handleRefresh ==
    /\ page = "list" /\ mounted /\ Render \in {"error", "body"}
    /\ ops < MaxOps
    /\ ops' = ops + 1
    /\ UNCHANGED mounted
    /\ Commit(fetchEvents(Cur), User("refresh"))

\* fetch() or response.json() rejects, or !response.ok (which throws
\* `HTTP error! status: ${response.status}`): catch, finally.
FetchEventsFailed ==
    \E r \in Sent("fetchEvents") :
      \E err \in NetworkErrors \cup ParseErrors
                  \cup {Template("HTTP error! status: ", st) : st \in ErrorStatuses(Statuses)} :
        /\ UNCHANGED <<mounted, ops>>
        /\ Conclude(r, fetchEventsFinally(fetchEventsCatch(Without(r), err)), Outcome(r, "failed"))

FetchEventsSucceeded ==
    \E r \in Sent("fetchEvents"), eventsData \in EventListPayloads :
        /\ UNCHANGED <<mounted, ops>>
        /\ Conclude(r, fetchEventsFinally(fetchEventsThen(Without(r), eventsData)), Outcome(r, "ok"))

-----------------------------------------------------------------------------
(* The pages: a freshly constructed page component under either host. *)

\* A page component before its mount effect, and no form under study.
FreshViews ==
    /\ mounted = FALSE
    /\ event = Null
    /\ events = <<>>
    /\ loading = TRUE
    /\ error = Null
    /\ showRSVPForm = FALSE
    /\ showEditForm = FALSE
    /\ rsvps = <<>>
    /\ rsvpLoading = FALSE
    /\ editInitial = Null
    /\ editError = Null
    /\ showTaskForm = FALSE
    /\ tasks = <<>>
    /\ taskSummary = Null
    /\ taskLoading = FALSE
    /\ editingTaskId = Null
    /\ processingTasks = {}
    /\ deleteLoading = FALSE
    /\ net = EmptyBag
    /\ ops = 0
    /\ last = User("construct")
    /\ form = "none"
    /\ values = <<>>
    /\ fieldErrors = <<>>
    /\ isSubmitting = FALSE
    /\ banner = Null
    /\ submitSuccess = FALSE
    /\ shown = FALSE
    /\ now = 0
    /\ renderedAt = 0
    /\ timezone = 0
    /\ received = Null
    /\ serverTasks = <<>>
    /\ served = EmptyBag

InitViews ==
    /\ host \in {"router", "demo"}
    /\ page \in (IF host = "router" THEN {"list", "detail"} ELSE {"detail"})
    /\ routeId \in (IF page = "detail" THEN EventIds ELSE {""})
    /\ FreshViews

NextViews ==
    \/ MountDetail \/ RetryFetchEvent
    \/ FetchEventRejected \/ FetchEventHttpError \/ FetchEventParseFailed
    \/ FetchEventSucceeded
    \/ ViewRSVPs \/ FetchEventRSVPsFailed \/ FetchEventRSVPsSucceeded
    \/ ToggleRSVPForm \/ ToggleEditForm
    \/ SubmitRSVP \/ RSVPFailed \/ RSVPSucceeded
    \/ EditLoadFailed \/ EditLoadSucceeded
    \/ SubmitEditEvent \/ EditPatchFailed \/ EditPatchSucceeded
    \/ MountList \/ handleRefresh \/ FetchEventsFailed \/ FetchEventsSucceeded

SpecViews == InitViews /\ [][NextViews]_vars

-----------------------------------------------------------------------------
(* The demo App: its home view with a button per event, and the detail     *)
(* view with the button back to the home view.                             *)

\* The events of the home view's buttons: 999 is an event the backend lacks.
DemoEventIds == {"1", "2", "999"}

\* The state of a page component before its mount effect.
FreshPage ==
    [event |-> Null, events |-> <<>>, loading |-> TRUE, error |-> Null,
     showRSVPForm |-> FALSE, showEditForm |-> FALSE, rsvps |-> <<>>,
     rsvpLoading |-> FALSE, editInitial |-> Null, editError |-> Null,
     showTaskForm |-> FALSE, tasks |-> <<>>, taskSummary |-> Null,
     taskLoading |-> FALSE, editingTaskId |-> Null, processingTasks |-> {},
     deleteLoading |-> FALSE,
     net |-> EmptyBag]

\* showEventDetail(eventId): setSelectedEventId(eventId); setCurrentView('event-detail')
showEventDetail ==
    /\ host = "demo" /\ page = "home"
    /\ ops < MaxOps
    /\ ops' = ops + 1
    /\ \E id \in DemoEventIds : routeId' = id
    /\ page' = "detail"
    /\ last' = User("showEventDetail")
    /\ UNCHANGED <<host, mounted, event, events, loading, error, showRSVPForm,
                   showEditForm, rsvps, rsvpLoading, editInitial, editError,
                   showTaskForm, tasks, taskSummary, taskLoading, editingTaskId,
                   processingTasks, deleteLoading, net>>
    /\ UNCHANGED formVars
    /\ UNCHANGED serverVars

\* showHome: setCurrentView('home'), which unmounts the detail page; the next
\* detail page is a new instance.
showHome ==
    /\ host = "demo" /\ page = "detail" /\ mounted
    /\ page' = "home"
    /\ mounted' = FALSE
    /\ Assign([FreshPage EXCEPT !.net = UnmountedAll(net)])
    /\ last' = User("showHome")
    /\ UNCHANGED <<host, routeId, ops>>
    /\ UNCHANGED formVars
    /\ UNCHANGED serverVars

\* const [currentView, setCurrentView] = useState('home');
\* const [selectedEventId, setSelectedEventId] = useState(1)
InitDemo ==
    /\ host = "demo"
    /\ page = "home"
    /\ routeId = "1"
    /\ FreshViews

\* The steps that need no user: a mount effect, and the continuation of a
\* request that was answered.
ConcludeDemo ==
    \/ MountDetail
    \/ FetchEventRejected \/ FetchEventHttpError \/ FetchEventParseFailed
    \/ FetchEventSucceeded
    \/ FetchEventRSVPsFailed \/ FetchEventRSVPsSucceeded
    \/ RSVPFailed \/ RSVPSucceeded

NextDemo ==
    \/ showEventDetail \/ showHome
    \/ RetryFetchEvent \/ ToggleRSVPForm \/ SubmitRSVP
    \/ ConcludeDemo

\* Every request is answered or fails, and React runs every mount effect and
\* every continuation.
SpecDemo == InitDemo /\ [][NextDemo]_vars /\ WF_vars(ConcludeDemo)

\* The detail page of the demo App, with its tasks.
InitTasks == InitViews /\ host = "demo"

NextTasks ==
    \/ MountDetail \/ RetryFetchEvent
    \/ FetchEventRejected \/ FetchEventHttpError \/ FetchEventParseFailed
    \/ FetchEventSucceeded
    \/ ViewTasks \/ FetchEventTasksFailed \/ FetchEventTasksSucceeded
    \/ ToggleTaskForm \/ SubmitNewTask \/ NewTaskFailed \/ NewTaskSucceeded
    \/ ToggleTask \/ ToggleTaskFailed \/ ToggleTaskSucceeded
    \/ EditTask \/ CancelEdit \/ SubmitEditTask \/ EditTaskFailed \/ EditTaskSucceeded
    \/ DeleteTask \/ DeleteTaskFailed \/ DeleteTaskSucceeded

SpecTasks == InitTasks /\ [][NextTasks]_vars

-----------------------------------------------------------------------------
(* The task list of a page that is rendered anew.                          *)

\* The detail page of event 1 under the demo App, after its event and its
\* tasks were loaded and the RSVP form was opened and submitted.
InitRemount ==
    /\ host = "demo" /\ page = "detail" /\ routeId = "1"
    /\ mounted = TRUE
    /\ event \in {Some(e) : e \in {p \in EventPayloads : p.id = "1"}}
    /\ events = <<>>
    /\ loading = FALSE
    /\ error = Null
    /\ showRSVPForm = TRUE
    /\ showEditForm = FALSE
    /\ rsvps = <<>>
    /\ rsvpLoading = FALSE
    /\ editInitial = Null
    /\ editError = Null
    /\ showTaskForm = FALSE
    /\ tasks \in TaskLists \ {<<>>}
    /\ taskSummary = Null
    /\ taskLoading = FALSE
    /\ editingTaskId = Null
    /\ processingTasks = {}
    /\ deleteLoading = FALSE
    /\ serverTasks = <<>>
    /\ served = EmptyBag
    /\ net = SetToBag({Req("RSVPForm.handleSubmit", "POST", <<"rsvps">>, "rsvpForm", "1")})
    /\ ops = 0
    /\ last = User("submitRSVP")
    /\ form = "none"
    /\ values = <<>>
    /\ fieldErrors = <<>>
    /\ isSubmitting = FALSE
    /\ banner = Null
    /\ submitSuccess = FALSE
    /\ shown = FALSE
    /\ now = 0
    /\ renderedAt = 0
    /\ timezone = 0
    /\ received = Null

NextRemount ==
    \/ ToggleTask \/ ToggleTaskFailed \/ ToggleTaskSucceeded
    \/ EditTask \/ CancelEdit
    \/ RSVPFailed \/ RSVPSucceeded
    \/ FetchEventRejected \/ FetchEventSucceeded \/ RetryFetchEvent
    \/ FetchEventRSVPsFailed \/ FetchEventRSVPsSucceeded
    \/ FetchEventTasksFailed \/ FetchEventTasksSucceeded

SpecRemount == InitRemount /\ [][NextRemount]_vars

-----------------------------------------------------------------------------
(* The task list against a server that is followed: the server holds the   *)
(* tasks of the event, a mutation changes them when it is answered, and    *)
(* the answer to a GET of the tasks carries the list the server held when  *)
(* it served the request, which is not later than when the answer arrives. *)

\* The body of GET /events/{id}/tasks when the server holds list.
TasksBody(list) ==
    [tasks |-> Some(list), task_summary |-> Some([total |-> Len(list)])]

\* PATCH /tasks/{id}/toggle and DELETE /tasks/{id} on the server's list.
ServerToggle(list, taskId) ==
    [i \in DOMAIN list |->
        IF list[i].id = taskId THEN [list[i] EXCEPT !.completed = ~@] ELSE list[i]]
ServerDelete(list, taskId) ==
    LET kept(t) == t.id # taskId IN SelectSeq(list, kept)

\* The GETs of the tasks in flight, with their copies.
TaskReadsInFlight ==
    SumCopies(Sent("fetchEventTasks"), net)

\* The server serves a GET of the tasks: the list it holds now goes into the
\* response, which is still to arrive.
ServeTasks ==
    /\ page = "detail"
    /\ BagCardinality(served) < TaskReadsInFlight
    /\ served' = served (+) SetToBag({serverTasks})
    /\ last' = Label("server", "served", "", 0, Null)
    /\ UNCHANGED <<viewVars, formVars, serverTasks, net, ops>>

\* The response to a GET of the tasks arrives: one that was served earlier,
\* or one that is served now.
TasksArrived ==
    \E r \in Sent("fetchEventTasks"), early \in BOOLEAN :
      \E list \in (IF early THEN BagToSet(served) ELSE {serverTasks}) :
        /\ ~early => BagCardinality(served) < TaskReadsInFlight
        /\ served' = IF early THEN served (-) SetToBag({list}) ELSE served
        /\ UNCHANGED <<serverTasks, mounted, ops>>
        /\ CommitPage(Settle(r, fetchEventTasksFinally(
                          fetchEventTasksThen(Without(r), TasksBody(list)))),
                      Outcome(r, "ok"))

\* The server toggles the task and answers with the task as it is now.
ToggleApplied ==
    \E r \in Sent("TaskList.handleTaskToggle") :
        /\ ~IsNull(FindTask(serverTasks, r.url[2]))
        /\ serverTasks' = ServerToggle(serverTasks, r.url[2])
        /\ UNCHANGED <<served, mounted, ops>>
        /\ LET updatedTask == Val(FindTask(ServerToggle(serverTasks, r.url[2]), r.url[2]))
               called == TaskList_handleTaskToggleThen(TaskListProps, Without(r), updatedTask)
           IN  CommitPage(Settle(r, IfMounted(r,
                              TaskList_handleTaskToggleFinally(called, r.url[2]), called)),
                          Label(r.by, "ok", r.from, 200, Some(updatedTask)))

\* The server deletes the task and answers.
DeleteApplied ==
    \E r \in Sent("TaskList.handleDeleteTask") :
        /\ ~IsNull(FindTask(serverTasks, r.url[2]))
        /\ serverTasks' = ServerDelete(serverTasks, r.url[2])
        /\ UNCHANGED <<served, mounted, ops>>
        /\ CommitPage(Settle(r, TaskList_handleDeleteTaskThen(TaskListProps, Without(r),
                                                              r.url[2])),
                      Outcome(r, "ok"))

\* The lists the server may hold at the start.
ServerTaskLists ==
    {<<[id |-> "k1", completed |-> c]>> : c \in BOOLEAN}
        \cup {<<[id |-> "k1", completed |-> c], [id |-> "k2", completed |-> FALSE]>> :
                  c \in BOOLEAN}

\* The detail page of event 1 under the demo App, after its event and its
\* tasks were loaded: it holds the list the server holds.
InitSync ==
    /\ host = "demo" /\ page = "detail" /\ routeId = "1"
    /\ mounted = TRUE
    /\ event \in {Some(e) : e \in {p \in EventPayloads : p.id = "1"}}
    /\ events = <<>>
    /\ loading = FALSE
    /\ error = Null
    /\ showRSVPForm = FALSE
    /\ showEditForm = FALSE
    /\ rsvps = <<>>
    /\ rsvpLoading = FALSE
    /\ editInitial = Null
    /\ editError = Null
    /\ showTaskForm = FALSE
    /\ serverTasks \in ServerTaskLists
    /\ tasks = serverTasks
    /\ taskSummary = TasksBody(serverTasks).task_summary
    /\ taskLoading = FALSE
    /\ editingTaskId = Null
    /\ processingTasks = {}
    /\ deleteLoading = FALSE
    /\ served = EmptyBag
    /\ net = EmptyBag
    /\ ops = 0
    /\ last = Outcome(Req("fetchEventTasks", "GET", <<"events", "1", "tasks">>, "page", "1"),
                      "ok")
    /\ form = "none"
    /\ values = <<>>
    /\ fieldErrors = <<>>
    /\ isSubmitting = FALSE
    /\ banner = Null
    /\ submitSuccess = FALSE
    /\ shown = FALSE
    /\ now = 0
    /\ renderedAt = 0
    /\ timezone = 0
    /\ received = Null

NextSync ==
    \/ ViewTasks \/ ToggleTask \/ DeleteTask
    \/ ServeTasks \/ TasksArrived \/ ToggleApplied \/ DeleteApplied

SpecSync == InitSync /\ [][NextSync]_vars

\* The same with every GET of the tasks served when its response arrives:
\* responses arrive in the order in which the server produced them.
NextSyncInOrder ==
    \/ ViewTasks \/ ToggleTask \/ DeleteTask
    \/ TasksArrived \/ ToggleApplied \/ DeleteApplied

SpecSyncInOrder == InitSync /\ [][NextSyncInOrder]_vars

-----------------------------------------------------------------------------
(* The deletion of the event of a detail page.                             *)

\* The detail page of an event under the demo App, after the event was loaded.
InitDelete ==
    /\ host = "demo" /\ page = "detail" /\ routeId \in EventIds
    /\ mounted = TRUE
    /\ event \in {Some(e) : e \in {p \in EventPayloads : p.id = routeId}}
    /\ events = <<>>
    /\ loading = FALSE
    /\ error = Null
    /\ showRSVPForm = FALSE
    /\ showEditForm = FALSE
    /\ rsvps = <<>>
    /\ rsvpLoading = FALSE
    /\ editInitial = Null
    /\ editError = Null
    /\ showTaskForm = FALSE
    /\ tasks = <<>>
    /\ taskSummary = Null
    /\ taskLoading = FALSE
    /\ editingTaskId = Null
    /\ processingTasks = {}
    /\ deleteLoading = FALSE
    /\ serverTasks = <<>>
    /\ served = EmptyBag
    /\ net = EmptyBag
    /\ ops = 0
    /\ last = Label("fetchEvent", "ok", "page", 200, event)
    /\ form = "none"
    /\ values = <<>>
    /\ fieldErrors = <<>>
    /\ isSubmitting = FALSE
    /\ banner = Null
    /\ submitSuccess = FALSE
    /\ shown = FALSE
    /\ now = 0
    /\ renderedAt = 0
    /\ timezone = 0
    /\ received = Null

\* The Delete button and its request, among the steps that render the page
\* anew (an RSVP and the reads it causes) or replace it (the demo App's home
\* view and back).
NextDelete ==
    \/ DeleteEvent \/ DeleteEventFailed \/ DeleteEventSucceeded
    \/ ToggleRSVPForm \/ SubmitRSVP \/ RSVPFailed \/ RSVPSucceeded
    \/ FetchEventRejected \/ FetchEventSucceeded \/ RetryFetchEvent
    \/ FetchEventRSVPsFailed \/ FetchEventRSVPsSucceeded
    \/ showHome \/ showEventDetail \/ MountDetail

SpecDelete == InitDelete /\ [][NextDelete]_vars


-----------------------------------------------------------------------------
(* Strings of the form fields: sequences of characters.  Times are minutes *)
(* since the bundle was loaded; the value of a datetime-local input is a   *)
(* time, or null when the input is empty.                                  *)

Repeat(c, n) == [i \in 1..n |-> c]
Min(S) == CHOOSE x \in S : \A y \in S : x <= y
Max(S) == CHOOSE x \in S : \A y \in S : x >= y

\* String.prototype.trim
Trim(str) ==
    LET solid == {i \in 1..Len(str) : str[i] # " "}
    IN  IF solid = {} THEN <<>> ELSE SubSeq(str, Min(solid), Max(solid))

\* String.prototype.toLowerCase
ToLowerCase(str) ==
    [i \in DOMAIN str |-> CASE str[i] = "A" -> "a" [] str[i] = "B" -> "b" [] OTHER -> str[i]]

\* /^[^\s@]+@[^\s@]+\.[^\s@]+$/.test(str)
emailRegex(str) ==
    LET ats == {i \in 1..Len(str) : str[i] = "@"}
    IN  /\ \A i \in 1..Len(str) : str[i] # " "
        /\ Cardinality(ats) = 1
        /\ \E at \in ats :
             /\ at > 1
             /\ \E dot \in (at + 2)..(Len(str) - 1) : str[dot] = "."

\* The error field of the error body of a write: "" stands for a body without one.
WriteErrorTexts == {Plain(""), Plain("Event title already exists")}

\* error.message.includes(word), for the messages an event form can meet.
Includes(m, word) ==
    CASE word = "title" -> m.text \in {"Event title already exists"}
      [] word = "date" -> m.text \in {"Failed to update event",
                                      "Failed to update event. Please try again."}

-----------------------------------------------------------------------------
(* The forms, their fields, and what the user can enter in each field.     *)

Forms == {"RSVPForm", "NewTaskForm", "EditTaskForm", "NewEventForm", "EditEventForm"}

Fields(f) ==
    CASE f = "RSVPForm" -> {"guest_name", "guest_email", "rsvp_status", "note_to_host"}
      [] f = "NewTaskForm" ->
            {"description", "assigned_to", "priority", "due_date", "completed"}
      [] f = "EditTaskForm" -> {"description", "assigned_to", "priority", "due_date"}
      [] f \in {"NewEventForm", "EditEventForm"} ->
            {"title", "description", "location", "date"}

Times == 0..MaxNow
DateInputs == {Null} \cup {Some(t) : t \in Times}

\* What the user can put in a field: a maxLength attribute cuts longer text,
\* a select or a radio group offers its options only.
Inputs(f, field) ==
    CASE f = "RSVPForm" /\ field = "guest_name" ->
            {<<>>, <<" ", "a">>, <<" ", "a", "b">>}
      [] f = "RSVPForm" /\ field = "guest_email" ->
            {<<>>, <<"a", "@", "b">>, <<"A", "@", "b", ".", "c">>}
      [] f = "RSVPForm" /\ field = "rsvp_status" -> {"Yes", "No", "Maybe"}
      [] f = "RSVPForm" /\ field = "note_to_host" -> {<<>>, Repeat("a", 500)}
      [] f = "NewTaskForm" /\ field = "description" ->
            {<<>>, <<"a", "b", "c", "d">>, <<" ", " ", " ", " ", "a">>,
             <<"a", "b", "c", "d", "e">>}
      [] f = "EditTaskForm" /\ field = "description" ->
            {<<>>, <<"a", "b">>, <<" ", " ", "a">>, Repeat("a", 501)}
      [] f = "NewTaskForm" /\ field = "assigned_to" -> {<<>>, <<"B", "o", "b">>}
      [] f = "EditTaskForm" /\ field = "assigned_to" -> {<<>>, Repeat("a", 101)}
      [] field = "priority" -> {"High", "Medium"}
      [] field = "completed" -> BOOLEAN
      [] field = "title" -> {<<>>, <<"a", "b">>, <<"a", "b", "c">>, Repeat("a", 201)}
      [] f \in {"NewEventForm", "EditEventForm"} /\ field = "description" ->
            {<<>>, Repeat("a", 1001)}
      [] field = "location" -> {<<>>, Repeat("a", 301)}
      [] field \in {"due_date", "date"} -> DateInputs

\* A date string is the reading of a clock, in minutes, with the zone it
\* names: "Z" for UTC, "" for none.  A date field holds the instant that its
\* text, which names no zone, denotes on the client's clock.
TimezoneOffsets == {0 - 60, 0, 60}

\* Date.prototype.toISOString: the reading of the UTC clock, ending in Z.
toISOString(t) == [reading |-> t, zone |-> "Z"]

\* .slice(0, 16) of an ISO string: YYYY-MM-DDTHH:MM, without seconds and Z.
Slice16(str) == [str EXCEPT !.zone = ""]

\* new Date(string): a string without a zone is read on the client's clock.
NewDate(str, tz) == IF str.zone = "Z" THEN str.reading ELSE str.reading - tz

\* date: new Date(eventData.date).toISOString().slice(0, 16), kept by the
\* field as the UTC reading and read back on the client's clock.
EditEventForm_dateValue(date, tz) ==
    NewDate(Slice16(toISOString(NewDate(date, tz))), tz)

\* The task an EditTaskForm is given, and the event an EditEventForm loaded.
TaskProps ==
    [description : {<<"a", "b", "c">>}, assigned_to : {Null},
     priority : {"Medium"}, due_date : {Null, Some(0)}]
LoadedEvents ==
    [title : {<<"a", "b", "c">>}, description : {<<>>}, location : {<<>>},
     date : {toISOString(0), toISOString(MaxNow)}]

\* const [formData, setFormData] = useState({...}) and the initialValues objects.
InitialValues(f, task, eventData) ==
    CASE f = "RSVPForm" ->
            [guest_name |-> <<>>, guest_email |-> <<>>, rsvp_status |-> "",
             note_to_host |-> <<>>]
      [] f = "NewTaskForm" ->
            [description |-> <<>>, assigned_to |-> <<>>, priority |-> "Medium",
             due_date |-> Null, completed |-> FALSE]
      [] f = "EditTaskForm" ->
            [description |-> task.description,
             assigned_to |-> IF IsNull(task.assigned_to) THEN <<>> ELSE Val(task.assigned_to),
             priority |-> task.priority,
             due_date |-> task.due_date]
      [] f = "NewEventForm" ->
            [title |-> <<>>, description |-> <<>>, location |-> <<>>, date |-> Null]
      [] f = "EditEventForm" ->
            [title |-> eventData.title, description |-> eventData.description,
             location |-> eventData.location,
             date |-> Some(EditEventForm_dateValue(eventData.date, timezone))]

NoErrors(f) == [field \in Fields(f) |-> Null]
HasErrors(errors) == \E field \in DOMAIN errors : ~IsNull(errors[field])

-----------------------------------------------------------------------------
(* Validation.  Formik hands Yup the values with '' turned into undefined; *)
(* a Yup test other than required passes an undefined value, string tests  *)
(* count the characters as typed, and a field shows its first message.     *)

\* The bundle is loaded at time 0: the task schemas are built then.
LoadedAt == 0

\* RSVPForm.validateForm
validateForm(formData) ==
    [guest_name |->
        IF Trim(formData.guest_name) = <<>> THEN Some(Plain("Name is required"))
        ELSE IF Len(Trim(formData.guest_name)) < 2
             THEN Some(Plain("Name must be at least 2 characters"))
        ELSE Null,
     guest_email |->
        IF Trim(formData.guest_email) = <<>> THEN Some(Plain("Email is required"))
        ELSE IF ~emailRegex(Trim(formData.guest_email))
             THEN Some(Plain("Please enter a valid email address"))
        ELSE Null,
     rsvp_status |->
        IF formData.rsvp_status = "" THEN Some(Plain("Please select your RSVP status"))
        ELSE Null,
     note_to_host |->
        IF formData.note_to_host # <<>> /\ Len(formData.note_to_host) > 500
        THEN Some(Plain("Note must be less than 500 characters"))
        ELSE Null]

\* Yup.string().min(least, tooShort).max(most, tooLong), with required(missing)
\* when missing is a message.
YupString(value, least, tooShort, most, tooLong, missing) ==
    IF value = <<>> THEN missing
    ELSE IF Len(value) < least THEN Some(Plain(tooShort))
    ELSE IF Len(value) > most THEN Some(Plain(tooLong))
    ELSE Null

\* Yup.string().oneOf(options, notOne).required(missing)
YupOneOf(value, options, notOne, missing) ==
    IF value = "" THEN Some(Plain(missing))
    ELSE IF value \notin options THEN Some(Plain(notOne))
    ELSE Null

\* Yup.date().min(least, tooEarly), with required(missing) when missing is a
\* message and nullable() otherwise.
YupDate(value, least, tooEarly, missing) ==
    IF IsNull(value) THEN missing
    ELSE IF Val(value) < least THEN Some(Plain(tooEarly))
    ELSE Null

\* NewTaskForm.jsx: TaskValidationSchema, whose new Date() is the load time.
TaskValidationSchema(v) ==
    [description |-> YupString(v.description, 5, "Description must be at least 5 characters",
                               500, "Description must be less than 500 characters",
                               Some(Plain("Description is required"))),
     assigned_to |-> YupString(v.assigned_to, 0, "",
                               100, "Assigned to must be less than 100 characters", Null),
     priority |-> YupOneOf(v.priority, {"High", "Medium", "Low"},
                           "Priority must be High, Medium, or Low", "Priority is required"),
     due_date |-> YupDate(v.due_date, LoadedAt, "Due date must be in the future", Null),
     completed |-> Null]

\* EditTaskForm.jsx: validationSchema, whose new Date() is the load time.
EditTaskForm_validationSchema(v) ==
    [description |-> YupString(v.description, 3, "Description must be at least 3 characters",
                               500, "Description must be less than 500 characters",
                               Some(Plain("Task description is required"))),
     assigned_to |-> YupString(v.assigned_to, 0, "",
                               100, "Assigned to must be less than 100 characters", Null),
     priority |-> YupOneOf(v.priority, {"Low", "Medium", "High"},
                           "Priority must be Low, Medium, or High", "Priority is required"),
     due_date |-> YupDate(v.due_date, LoadedAt, "Due date cannot be in the past", Null)]

\* NewEventForm and EditEventForm: validationSchema, built by each render, so
\* that its new Date() is the time of that render.
EventForm_validationSchema(v, rendered) ==
    [title |-> YupString(v.title, 3, "Title must be at least 3 characters",
                         200, "Title must be less than 200 characters",
                         Some(Plain("Title is required"))),
     description |-> YupString(v.description, 0, "",
                               1000, "Description must be less than 1000 characters", Null),
     location |-> YupString(v.location, 0, "",
                            300, "Location must be less than 300 characters", Null),
     date |-> YupDate(v.date, rendered, "Date must be in the future",
                      Some(Plain("Date is required")))]

\* The validation a form runs on values v, with the schema of its last render.
Validate(f, v, rendered) ==
    CASE f = "RSVPForm" -> validateForm(v)
      [] f = "NewTaskForm" -> TaskValidationSchema(v)
      [] f = "EditTaskForm" -> EditTaskForm_validationSchema(v)
      [] f \in {"NewEventForm", "EditEventForm"} -> EventForm_validationSchema(v, rendered)

-----------------------------------------------------------------------------
(* The handlers of the forms, as functions of the form's state.            *)

FormCur ==
    [values |-> values, fieldErrors |-> fieldErrors, isSubmitting |-> isSubmitting,
     banner |-> banner, submitSuccess |-> submitSuccess, shown |-> shown, net |-> net]

ErrorBanner(m) == Some([type |-> "error", message |-> m])
SuccessBanner(m) == Some([type |-> "success", message |-> m])

\* A write request and its JSON body.
Write(by, method, url, body) ==
    [by |-> by, method |-> method, url |-> url, from |-> "form", body |-> body]

\* RSVPForm.handleInputChange
handleInputChange(s, name, value) ==
    [s EXCEPT !.fieldErrors[name] = Null, !.values[name] = value]

\* RSVPForm.handleReset
handleReset(s) ==
    [s EXCEPT !.values = InitialValues("RSVPForm", Null, Null),
              !.fieldErrors = NoErrors("RSVPForm"),
              !.banner = Null,
              !.submitSuccess = FALSE]

\* RSVPForm.handleSubmit: const rsvpData = {...}
rsvpData(formData) ==
    [event_id |-> "1",
     guest_name |-> Trim(formData.guest_name),
     guest_email |-> ToLowerCase(Trim(formData.guest_email)),
     rsvp_status |-> formData.rsvp_status,
     note_to_host |-> Trim(formData.note_to_host)]

\* RSVPForm.handleSubmit up to its first await.
RSVPForm_onSubmit(s) ==
    LET checked == [s EXCEPT !.banner = Null,
                             !.submitSuccess = FALSE,
                             !.fieldErrors = validateForm(s.values)]
    IN  IF HasErrors(checked.fieldErrors) THEN checked
        ELSE [checked EXCEPT
                !.isSubmitting = TRUE,
                !.net = Send(@, Write("RSVPForm.handleSubmit", "POST", <<"rsvps">>,
                                      rsvpData(s.values)))]

\* if (!response.ok) { ... setSubmitError(...); return }
RSVPForm_onNotOk(s, status, errorText) ==
    [s EXCEPT !.banner = ErrorBanner(
        IF status = 409
        THEN Plain("You have already RSVP'd to this event. Each email can only RSVP once.")
        ELSE IF status = 404 THEN Plain("Event not found. Please try again.")
        ELSE OrElse(errorText, Plain("Failed to submit RSVP. Please try again.")))]

\* setSubmitSuccess(true); setFormData({...})
RSVPForm_onOk(s) ==
    [s EXCEPT !.submitSuccess = TRUE, !.values = InitialValues("RSVPForm", Null, Null)]

RSVPForm_onCatch(s, err) ==
    [s EXCEPT !.banner =
        ErrorBanner(Plain("Network error. Please check your connection and try again."))]

\* RSVPForm.handleSubmit without its finally block.
RSVPForm_onFinally_Missing(s) == s

\* finally { setIsSubmitting(false) }
RSVPForm_onFinally(s) == [s EXCEPT !.isSubmitting = FALSE]

\* NewTaskForm.handleSubmit up to its first await.
NewTaskForm_onSubmit(s) ==
    [s EXCEPT !.banner = Null,
              !.net = Send(@, Write("NewTaskForm.handleSubmit", "POST", <<"tasks">>,
                    [event_id |-> "1",
                     description |-> Trim(s.values.description),
                     assigned_to |-> Trim(s.values.assigned_to),
                     priority |-> s.values.priority,
                     completed |-> s.values.completed,
                     due_date |-> s.values.due_date]))]

NewTaskForm_onNotOk(s, errorText) ==
    [s EXCEPT !.banner = ErrorBanner(OrElse(errorText, Plain("Failed to create task")))]

\* NewTaskForm.handleSubmit's success branch without its resetForm().
NewTaskForm_onOk_NoReset(s) ==
    [s EXCEPT !.banner = SuccessBanner(Plain("Task created successfully!"))]

\* setStatus({ type: 'success', ... }); resetForm(), which also resets the status.
NewTaskForm_onOk(s) ==
    [s EXCEPT !.values = InitialValues("NewTaskForm", Null, Null),
              !.fieldErrors = NoErrors("NewTaskForm"),
              !.banner = Null,
              !.isSubmitting = FALSE]

NewTaskForm_onCatch(s, err) ==
    [s EXCEPT !.banner = ErrorBanner(Plain("Network error. Please try again."))]

NewTaskForm_onFinally(s) == [s EXCEPT !.isSubmitting = FALSE]

\* EditTaskForm.handleSubmit sending a POST.
EditTaskForm_onSubmit_Post(s) ==
    [s EXCEPT !.banner = Null,
              !.net = Send(@, Write("EditTaskForm.handleSubmit", "POST", <<"tasks", "7">>,
                    [description |-> Trim(s.values.description),
                     priority |-> s.values.priority,
                     assigned_to |-> IF Trim(s.values.assigned_to) = <<>> THEN Null
                                     ELSE Some(Trim(s.values.assigned_to)),
                     due_date |-> s.values.due_date,
                     event_id |-> "1"]))]

\* EditTaskForm.handleSubmit up to its first await.
EditTaskForm_onSubmit(s) ==
    [s EXCEPT !.banner = Null,
              !.net = Send(@, Write("EditTaskForm.handleSubmit", "PATCH", <<"tasks", "7">>,
                    [description |-> Trim(s.values.description),
                     priority |-> s.values.priority,
                     assigned_to |-> IF Trim(s.values.assigned_to) = <<>> THEN Null
                                     ELSE Some(Trim(s.values.assigned_to)),
                     due_date |-> s.values.due_date,
                     event_id |-> "1"]))]

\* throw new Error(errorData.error || 'Failed to update task')
EditTaskForm_onNotOk(errorText) == OrElse(errorText, Plain("Failed to update task"))

EditTaskForm_onOk(s) ==
    [s EXCEPT !.banner = SuccessBanner(Plain("Task updated successfully!"))]

EditTaskForm_onCatch(s, err) ==
    [s EXCEPT !.banner =
        ErrorBanner(OrElse(err, Plain("Failed to update task. Please try again.")))]

EditTaskForm_onFinally(s) == [s EXCEPT !.isSubmitting = FALSE]

\* const eventData = {...} of the event forms.
eventData(v) ==
    [title |-> v.title, description |-> v.description, location |-> v.location,
     date |-> v.date]

\* NewEventForm.handleSubmit up to its first await.
NewEventForm_onSubmit(s) ==
    [s EXCEPT !.banner = Null,
              !.net = Send(@, Write("NewEventForm.handleSubmit", "POST", <<"events">>,
                                    eventData(s.values)))]

\* throw new Error(errorData.error || 'Failed to create event')
NewEventForm_onNotOk(errorText) == OrElse(errorText, Plain("Failed to create event"))

\* navigate('/', ...): the router leaves the form.
NewEventForm_onOk(s) == [s EXCEPT !.shown = FALSE]

\* The catch block of an event form, whose fallback message is fallback.
EventForm_onCatch(s, err, fallback) ==
    [s EXCEPT !.banner = ErrorBanner(OrElse(err, Plain(fallback))),
              !.fieldErrors =
                  IF Includes(err, "title") THEN [@ EXCEPT !.title = Some(err)]
                  ELSE IF Includes(err, "date") THEN [@ EXCEPT !.date = Some(err)]
                  ELSE @]

NewEventForm_onCatch(s, err) ==
    EventForm_onCatch(s, err, "Failed to create event. Please try again.")

NewEventForm_onFinally(s) == [s EXCEPT !.isSubmitting = FALSE]

\* EditEventForm.handleSubmit up to its first await.
EditEventForm_onSubmit(s) ==
    [s EXCEPT !.banner = Null,
              !.net = Send(@, Write("EditEventForm.handleSubmit", "PATCH", <<"events", "1">>,
                                    eventData(s.values)))]

EditEventForm_onCatch(s, err) ==
    EventForm_onCatch(s, err, "Failed to update event. Please try again.")

EditEventForm_onFinally(s) == [s EXCEPT !.isSubmitting = FALSE]

\* Formik's handleChange with validateOnChange: the new value, then the
\* validation of the new values.
Formik_handleChange(f, s, name, value) ==
    LET v == [s.values EXCEPT ![name] = value]
    IN  [s EXCEPT !.values = v, !.fieldErrors = Validate(f, v, renderedAt)]

\* Formik's onSubmit={handleSubmit}: the form's handler.
Formik_onSubmit(f, s) ==
    CASE f = "NewTaskForm" -> NewTaskForm_onSubmit(s)
      [] f = "EditTaskForm" -> EditTaskForm_onSubmit(s)
      [] f = "NewEventForm" -> NewEventForm_onSubmit(s)
      [] f = "EditEventForm" -> EditEventForm_onSubmit(s)

\* Formik's submitForm: validate; with errors, show them and stop; without,
\* call the handler with isSubmitting set.
Formik_submitForm(f, s) ==
    LET errors == Validate(f, s.values, renderedAt)
    IN  IF HasErrors(errors) THEN [s EXCEPT !.fieldErrors = errors]
        ELSE Formik_onSubmit(f, [s EXCEPT !.fieldErrors = errors, !.isSubmitting = TRUE])

\* The parts of a form's handleSubmit after the response.
OnNotOk(f, s, status, errorText) ==
    CASE f = "RSVPForm" -> RSVPForm_onNotOk(s, status, errorText)
      [] f = "NewTaskForm" -> NewTaskForm_onNotOk(s, errorText)
      [] f = "EditTaskForm" -> EditTaskForm_onCatch(s, EditTaskForm_onNotOk(errorText))
      [] f = "NewEventForm" -> NewEventForm_onCatch(s, NewEventForm_onNotOk(errorText))
      [] f = "EditEventForm" ->
            EditEventForm_onCatch(s, EditEventForm_handleSubmitThrow(errorText))

OnOk(f, s) ==
    CASE f = "RSVPForm" -> RSVPForm_onOk(s)
      [] f = "NewTaskForm" -> NewTaskForm_onOk(s)
      [] f = "EditTaskForm" -> EditTaskForm_onOk(s)
      [] f = "NewEventForm" -> NewEventForm_onOk(s)
      [] f = "EditEventForm" -> s

OnCatch(f, s, err) ==
    CASE f = "RSVPForm" -> RSVPForm_onCatch(s, err)
      [] f = "NewTaskForm" -> NewTaskForm_onCatch(s, err)
      [] f = "EditTaskForm" -> EditTaskForm_onCatch(s, err)
      [] f = "NewEventForm" -> NewEventForm_onCatch(s, err)
      [] f = "EditEventForm" -> EditEventForm_onCatch(s, err)

OnFinally(f, s) ==
    CASE f = "RSVPForm" -> RSVPForm_onFinally(s)
      [] f = "NewTaskForm" -> NewTaskForm_onFinally(s)
      [] f = "EditTaskForm" -> EditTaskForm_onFinally(s)
      [] f = "NewEventForm" -> NewEventForm_onFinally(s)
      [] f = "EditEventForm" -> EditEventForm_onFinally(s)

-----------------------------------------------------------------------------
(* Actions of a form.  Every handler part re-renders the form.             *)

CommitForm(s, label) ==
    /\ values' = s.values
    /\ fieldErrors' = s.fieldErrors
    /\ isSubmitting' = s.isSubmitting
    /\ banner' = s.banner
    /\ submitSuccess' = s.submitSuccess
    /\ shown' = s.shown
    /\ net' = s.net
    /\ last' = label
    /\ renderedAt' = now
    /\ UNCHANGED <<form, now, timezone, received>>
    /\ UNCHANGED viewVars
    /\ UNCHANGED serverVars

\* The form's state with request r taken out of flight.
FormWithout(r) == [FormCur EXCEPT !.net = Drop(@, r)]

\* The fields are disabled={isSubmitting || submitSuccess} in RSVPForm and
\* disabled={isSubmitting} in NewTaskForm.
FieldsEnabled ==
    CASE form = "RSVPForm" -> ~isSubmitting /\ ~submitSuccess
      [] form = "NewTaskForm" -> ~isSubmitting
      [] OTHER -> TRUE

\* The user changes a field.
EditField ==
    /\ form \in Forms /\ shown /\ FieldsEnabled
    /\ \E name \in Fields(form) :
         \E value \in Inputs(form, name) :
            /\ value # values[name]
            /\ CommitForm(IF form = "RSVPForm"
                          THEN handleInputChange(FormCur, name, value)
                          ELSE Formik_handleChange(form, FormCur, name, value),
                          User("change"))
    /\ UNCHANGED ops

\* <button onClick={handleReset} disabled={isSubmitting}>
ResetRSVP ==
    /\ form = "RSVPForm" /\ shown /\ ~isSubmitting
    /\ CommitForm(handleReset(FormCur), User("reset"))
    /\ UNCHANGED ops

\* The user submits: the button is disabled={isSubmitting}, and RSVPForm shows
\* none once submitSuccess is set.
Submit ==
    /\ form \in Forms /\ shown /\ ~isSubmitting /\ ~submitSuccess
    /\ ops < MaxOps
    /\ ops' = ops + 1
    /\ CommitForm(IF form = "RSVPForm" THEN RSVPForm_onSubmit(FormCur)
                  ELSE Formik_submitForm(form, FormCur),
                  User("submit"))

\* fetch() rejects: catch, finally.
SubmitRejected ==
    /\ form \in Forms
    /\ \E r \in InFlight, err \in NetworkErrors :
         CommitForm(OnFinally(form, OnCatch(form, FormWithout(r), err)),
                    Outcome(r, "rejected"))
    /\ UNCHANGED ops

\* response.json() rejects, whatever the status: catch, finally.
SubmitParseFailed ==
    /\ form \in Forms
    /\ \E r \in InFlight, status \in {200, 404, 409, 500}, err \in ParseErrors :
         CommitForm(OnFinally(form, OnCatch(form, FormWithout(r), err)),
                    Label(r.by, "parseFailed", r.from, status, Null))
    /\ UNCHANGED ops

\* A response with !response.ok and a body that parses.
SubmitNotOk ==
    /\ form \in Forms
    /\ \E r \in InFlight, status \in {404, 409, 500}, errorText \in WriteErrorTexts :
         CommitForm(OnFinally(form, OnNotOk(form, FormWithout(r), status, errorText)),
                    Label(r.by, "httpError", r.from, status, Null))
    /\ UNCHANGED ops

\* response.ok and a body that parses; the callback the form was given, or
\* the navigation, may take the form off the page.
SubmitOk ==
    /\ form \in Forms
    /\ \E r \in InFlight, stays \in BOOLEAN :
         /\ form = "NewEventForm" => ~stays
         /\ CommitForm([OnFinally(form, OnOk(form, FormWithout(r)))
                           EXCEPT !.shown = @ /\ stays],
                       Outcome(r, "ok"))
    /\ UNCHANGED ops

\* A minute passes.
Tick ==
    /\ form \in Forms
    /\ now < MaxNow
    /\ now' = now + 1
    /\ last' = Label("clock", "tick", "", 0, Null)
    /\ UNCHANGED <<form, values, fieldErrors, isSubmitting, banner, submitSuccess,
                   shown, renderedAt, timezone, received, net, ops>>
    /\ UNCHANGED viewVars
    /\ UNCHANGED serverVars

\* A freshly mounted form on a client whose offset from UTC is one of
\* offsets; an edit form holds the task it was given, or the event it loaded.
FreshForm(offsets) ==
    /\ form \in Forms
    /\ timezone \in offsets
    /\ \E task \in TaskProps, loaded \in LoadedEvents :
         /\ values = InitialValues(form, task, loaded)
         /\ received = IF form = "EditEventForm" THEN Some(loaded) ELSE Null
    /\ fieldErrors = NoErrors(form)
    /\ isSubmitting = FALSE
    /\ banner = Null
    /\ submitSuccess = FALSE
    /\ shown = TRUE
    /\ now = LoadedAt
    /\ renderedAt = LoadedAt
    /\ net = EmptyBag
    /\ ops = 0
    /\ last = User("construct")
    /\ host = "none"
    /\ page = "form"
    /\ routeId = ""
    /\ mounted = FALSE
    /\ event = Null
    /\ events = <<>>
    /\ loading = FALSE
    /\ error = Null
    /\ showRSVPForm = FALSE
    /\ showEditForm = FALSE
    /\ rsvps = <<>>
    /\ rsvpLoading = FALSE
    /\ editInitial = Null
    /\ editError = Null
    /\ showTaskForm = FALSE
    /\ tasks = <<>>
    /\ taskSummary = Null
    /\ taskLoading = FALSE
    /\ editingTaskId = Null
    /\ processingTasks = {}
    /\ deleteLoading = FALSE
    /\ serverTasks = <<>>
    /\ served = EmptyBag

\* The forms on a client whose clock is UTC.
InitForms == FreshForm({0})

NextForms ==
    \/ EditField \/ ResetRSVP \/ Submit
    \/ SubmitRejected \/ SubmitParseFailed \/ SubmitNotOk \/ SubmitOk
    \/ Tick

SpecForms == InitForms /\ [][NextForms]_vars

\* The edit-event form on clients of every offset from UTC.
InitEditEvent == FreshForm(TimezoneOffsets) /\ form = "EditEventForm"

NextEditEvent ==
    \/ EditField \/ Submit
    \/ SubmitRejected \/ SubmitParseFailed \/ SubmitNotOk \/ SubmitOk
    \/ Tick

SpecEditEvent == InitEditEvent /\ [][NextEditEvent]_vars

-----------------------------------------------------------------------------
(* Properties of the pages. *)

ReadFetches == {"fetchEvent", "fetchEvents"}
FailureOutcomes == {"rejected", "httpError", "parseFailed", "failed"}
\* The step just taken concluded a read fetch of a page, and how.
ReadConcluded == last.by \in ReadFetches /\ last.outcome \in FailureOutcomes \cup {"ok"}
ReadFailed == last.by \in ReadFetches /\ last.outcome \in FailureOutcomes
HasErrorMessage(e) == ~IsNull(e) /\ Truthy(Val(e))

\* C1: right after a read fetch of the list page or of the detail page has
\* concluded, with whatever outcome, loading is false.
C1_LoadingClearedWhenConcluded == ReadConcluded => ~loading
C1_Witness ==
    /\ page = "detail" /\ last.by = "fetchEvent" /\ last.outcome = "rejected"
    /\ ~loading

\* C4: right after fetchEvent got a status that is not ok, the error is
\* 'Event not found' for 404 and 'HTTP error! status: s' for any other s.
C4_ErrorByStatus ==
    (last.by = "fetchEvent" /\ last.outcome = "httpError") =>
        error = Some(IF last.status = 404
                     THEN [text |-> "Event not found", args |-> <<>>]
                     ELSE [text |-> "HTTP error! status: ", args |-> <<last.status>>])
C4_Witness ==
    /\ last.by = "fetchEvent" /\ last.outcome = "httpError" /\ last.status = 404
    /\ error = Some([text |-> "Event not found", args |-> <<>>])

\* C5: whenever the detail page holds an error it renders the error branch,
\* not the detail container, also while it still holds an event.
C5_ErrorRendersErrorBranch ==
    (page = "detail" /\ ~IsNull(error)) => Render = "error"
C5_Witness ==
    page = "detail" /\ ~IsNull(error) /\ ~IsNull(event) /\ Render = "error"

\* C6: right after fetchEvent concluded successfully, the event is the payload
\* it parsed and the error is null.
C6_SuccessStoresPayloadAndClearsError ==
    (last.by = "fetchEvent" /\ last.outcome = "ok") =>
        event = last.data /\ IsNull(error)

\* C7, as stated: right after a read fetch failed, the error is a non-empty
\* message and the page's data is empty.
C7_FailureLeavesDataEmpty ==
    ReadFailed => HasErrorMessage(error) /\ IsNull(event) /\ events = <<>>

\* C7, amended: a step in which a read fetch fails leaves a non-empty error
\* message and leaves the page's data as it was before the step.
C7_FailureLeavesDataUnchanged ==
    [][ReadFailed' => HasErrorMessage(error') /\ event' = event /\ events' = events]_vars
C7_Witness ==
    /\ page = "list" /\ last.by = "fetchEvents" /\ last.outcome = "failed"
    /\ HasErrorMessage(error) /\ events # <<>>

\* C8: right after the edit form mounted in the detail page got a success
\* response to its PATCH, the page's event is the returned event and the
\* edit form is hidden.
C8_EditSuccessUpdatesPage ==
    (/\ last.by = "EditEventForm.handleSubmit"
     /\ last.outcome = "ok"
     /\ last.from = "editForm") =>
        event = last.data /\ ~showEditForm

\* C9: every request for an event that the detail page shown by the router
\* (or a form inside it) has in flight addresses the event of the path.
C9_RequestsAddressRouteId ==
    (host = "router" /\ page = "detail") =>
        \A r \in InFlight :
            (Len(r.url) >= 2 /\ r.url[1] = "events") => r.url[2] = routeId

\* The writes issued from the detail view, and the reads that fetch again
\* what each of them changed.
Mutations ==
    {"RSVPForm.handleSubmit", "EditEventForm.handleSubmit", "NewTaskForm.handleSubmit",
     "EditTaskForm.handleSubmit", "TaskList.handleTaskToggle", "TaskList.handleDeleteTask"}
ReadsAfter(by) ==
    CASE by = "RSVPForm.handleSubmit" -> {"fetchEvent", "fetchEventRSVPs"}
      [] by = "EditEventForm.handleSubmit" -> {"fetchEvent"}
      [] OTHER -> {"fetchEventTasks"}
MutationSucceeded == page = "detail" /\ last.by \in Mutations /\ last.outcome = "ok"

\* C11: right after a write issued from the detail view got a success
\* response, a read of each collection it changed is in flight.
C11_MutationIsFollowedByRefetch ==
    MutationSucceeded =>
        \A read \in ReadsAfter(last.by) : \E r \in InFlight : r.by = read

\* The same for the writes other than the update of the event.
MutationButEventUpdateIsFollowedByRefetch ==
    (MutationSucceeded /\ last.by # "EditEventForm.handleSubmit") =>
        \A read \in ReadsAfter(last.by) : \E r \in InFlight : r.by = read


\* The reads of request q that the step just taken issued.
IssuedByStep(q) == CopiesIn(q, net') - CopiesIn(q, net)

\* C12: a step in which an RSVP submission, a task toggle or a task delete
\* gets its success response issues each GET at most once.
C12_OneReadPerCollection ==
    [][(/\ last'.outcome = "ok"
        /\ last'.by \in {"RSVPForm.handleSubmit", "TaskList.handleTaskToggle",
                         "TaskList.handleDeleteTask"}) =>
            \A q \in BagToSet(net') : q.method = "GET" => IssuedByStep(q) <= 1]_vars

\* The same for the task delete alone.
DeleteIssuesOneRead ==
    [][(last'.outcome = "ok" /\ last'.by = "TaskList.handleDeleteTask") =>
            \A q \in BagToSet(net') : q.method = "GET" => IssuedByStep(q) <= 1]_vars

\* The detail view holds the event of another id than its eventId, with no
\* request in flight.
StaleEvent ==
    /\ page = "detail" /\ net = EmptyBag
    /\ ~IsNull(event) /\ Val(event).id # eventId

C16_LoadFailureShown ==
    (/\ last.by = "fetchEventDetails" /\ last.outcome = "failed"
     /\ last.from = "editForm"
     /\ EditFormMountedIn(Cur)) =>
        /\ EditEventForm_RenderOf(Cur) # "loading"
        /\ EditEventForm_BannerOf(Cur) = Some([text |-> "Failed to load event data.",
                                              args |-> <<>>])

\* What does hold: the message is stored, and not rendered.
LoadFailureStored ==
    (/\ last.by = "fetchEventDetails" /\ last.outcome = "failed"
     /\ last.from = "editForm"
     /\ EditFormMountedIn(Cur)) =>
        /\ editError = Some([text |-> "Failed to load event data.", args |-> <<>>])
        /\ EditEventForm_RenderOf(Cur) = "loading"

\* A fetch of one of the lists of the detail page has just failed.
ListFetchFailed ==
    /\ page = "detail"
    /\ last.by \in {"fetchEventRSVPs", "fetchEventTasks"}
    /\ last.outcome = "failed"

\* C19: right after the fetch of the RSVPs or of the tasks of the detail page
\* has failed, the page holds a non-empty error message.
C19_ListFailureStored == ListFetchFailed => HasErrorMessage(error)

\* A failed fetch of a list clears the list's loading flag and changes
\* nothing else of the page: no message, and the list as it was.
ListFailureStoresNothing ==
    [][(last'.by \in {"fetchEventRSVPs", "fetchEventTasks"} /\ last'.outcome = "failed") =>
          /\ error' = error /\ rsvps' = rsvps /\ tasks' = tasks
          /\ event' = event /\ taskSummary' = taskSummary
          /\ ~rsvpLoading' \/ last'.by # "fetchEventRSVPs"
          /\ ~taskLoading' \/ last'.by # "fetchEventTasks"]_vars

\* What the backend answers to a read: a failure with its message, or data.
Failure(err) == [ok |-> FALSE, err |-> err, data |-> Null]
Success(data) == [ok |-> TRUE, err |-> Plain(""), data |-> Some(data)]
ReadResponses ==
    IF page = "list"
    THEN {Failure(err) : err \in NetworkErrors \cup ParseErrors}
            \cup {Success(eventsData) : eventsData \in EventListPayloads}
    ELSE {Failure(err) : err \in NetworkErrors \cup ParseErrors
                                \cup {fetchEventThrow(st) : st \in ErrorStatuses(Statuses)}}
            \cup {Success(e) : e \in {p \in EventPayloads : p.id = eventId}}

\* The refresh or retry of the mounted page from its call to its conclusion
\* with answer x.
Refreshed(s, x) ==
    IF page = "list"
    THEN fetchEventsFinally(IF x.ok THEN fetchEventsThen(fetchEvents(s), Val(x.data))
                            ELSE fetchEventsCatch(fetchEvents(s), x.err))
    ELSE fetchEventFinally(IF x.ok THEN fetchEventThen(fetchEvent(s), Val(x.data))
                           ELSE fetchEventCatch(fetchEvent(s), x.err))

\* The list page offers its refresh in the error branch and in the body, the
\* detail page its retry in the error branch only.
RefreshOffered(s) ==
    IF page = "list" THEN RenderOf(s) \in {"error", "body"} ELSE RenderOf(s) = "error"

ViewOf(s) == <<s.loading, s.error, s.event, s.events, RenderOf(s)>>

\* C21: from every state of a mounted page that offers the refresh or retry
\* with no read in flight, invoking it, letting it conclude with an answer,
\* and invoking it again with the same answer leaves loading, error, the data
\* and what is rendered as they were after the first conclusion.
C21_RefreshIdempotent ==
    (/\ page \in {"list", "detail"} /\ mounted
     /\ Sent("fetchEvent") \cup Sent("fetchEvents") = {}
     /\ RefreshOffered(Cur)) =>
        \A x \in ReadResponses :
            RefreshOffered(Refreshed(Cur, x)) =>
                ViewOf(Refreshed(Refreshed(Cur, x), x)) = ViewOf(Refreshed(Cur, x))
C21_Witness ==
    /\ page = "list" /\ mounted /\ ops = MaxOps
    /\ last.by = "fetchEvents" /\ last.outcome = "ok"
    /\ net = EmptyBag /\ RefreshOffered(Cur)
    /\ events # <<>> /\ ~loading

\* The number of requests that the step puts in flight: a step of the user,
\* of a mount effect or of the clock concludes no request, every other step
\* is the continuation of one request, which it takes out of flight.
IssuedInStep ==
    BagCardinality(net') - BagCardinality(net)
        + (IF last'.by \in {"user", "effect", "clock"} THEN 0 ELSE 1)

\* C22: the step in which a request fails takes that request out of flight
\* and puts no request in flight; a request is issued only by a step of the
\* user, by a mount effect, or by the continuation of a success.
C22_NoRetryAfterFailure ==
    [][/\ last'.outcome \in FailureOutcomes =>
            BagCardinality(net') = BagCardinality(net) - 1
       /\ IssuedInStep > 0 =>
            last'.by \in {"user", "effect"} \/ last'.outcome = "ok"]_vars
C22_Witness ==
    /\ page = "detail" /\ last.by = "RSVPForm.handleSubmit" /\ last.outcome = "failed"
    /\ net = EmptyBag /\ showRSVPForm

\* C23: whenever the detail page is not loading and holds no error, or an
\* error that `if (error)` takes for none, it holds an event: the detail
\* container is rendered from an event, also while fetches overlap.
C23_BodyRenderedFromEvent ==
    (page = "detail" /\ ~loading /\ ~HasErrorMessage(error)) => ~IsNull(event)
C23_Witness ==
    /\ page = "detail" /\ ~loading /\ IsNull(error) /\ ~IsNull(event)
    /\ Render = "body"
    /\ last.by = "fetchEvent" /\ last.outcome = "ok"
    /\ Sent("fetchEvent") # {}

\* C24: while a GET /events/{id} that fetchEvent of the mounted detail page
\* issued is in flight, loading is true.
C24_LoadingWhileFetchOutstanding ==
    (page = "detail" /\ \E r \in Sent("fetchEvent") : r.from = "page") => loading

\* C25: whenever no request of the detail page is in flight and no response
\* is on its way, the tasks the page holds are the tasks the server holds.
C25_TasksMatchServer ==
    (page = "detail" /\ net = EmptyBag /\ served = EmptyBag) => tasks = serverTasks

\* The toggle requests of task id in flight, and how many they are.
TogglesOf(id) == {r \in Sent("TaskList.handleTaskToggle") : r.url[2] = id}

\* C26: for every task at most one toggle request is in flight, and the
\* task's id is in processingTasks exactly while one is.
C26_OneToggleOutstanding ==
    page = "detail" =>
        \A id \in TaskIds :
            /\ SumCopies(TogglesOf(id), net) <= 1
            /\ id \in processingTasks <=> TogglesOf(id) # {}

\* The same for the toggle requests of the task list that is mounted.
OneToggleOfMountedList ==
    page = "detail" =>
        \A id \in TaskIds :
            LET own == {r \in TogglesOf(id) : r.from = "taskList"}
            IN  /\ SumCopies(own, net) <= 1
                /\ id \in processingTasks <=> own # {}

-----------------------------------------------------------------------------
(* Properties of the forms. *)

\* The validation rules of the forms: value breaks a rule of field name of
\* form f at time at.
TooShort(str, least) == str = <<>> \/ Len(str) < least
RuleViolated(f, name, value, at) ==
    CASE f = "RSVPForm" /\ name = "guest_name" -> TooShort(Trim(value), 2)
      [] f = "RSVPForm" /\ name = "guest_email" ->
            Trim(value) = <<>> \/ ~emailRegex(Trim(value))
      [] f = "RSVPForm" /\ name = "rsvp_status" -> value \notin {"Yes", "No", "Maybe"}
      [] f = "RSVPForm" /\ name = "note_to_host" -> Len(value) > 500
      [] f = "NewTaskForm" /\ name = "description" -> TooShort(value, 5) \/ Len(value) > 500
      [] f = "EditTaskForm" /\ name = "description" -> TooShort(value, 3) \/ Len(value) > 500
      [] name = "assigned_to" -> Len(value) > 100
      [] name = "priority" -> value \notin {"High", "Medium", "Low"}
      [] name = "completed" -> FALSE
      [] name = "due_date" -> ~IsNull(value) /\ Val(value) < at
      [] name = "title" -> TooShort(value, 3) \/ Len(value) > 200
      [] f \in {"NewEventForm", "EditEventForm"} /\ name = "description" -> Len(value) > 1000
      [] name = "location" -> Len(value) > 300
      [] name = "date" -> IsNull(value) \/ Val(value) < at
ViolatedFields == {name \in Fields(form) : RuleViolated(form, name, values[name], now)}

\* The fields whose rule is broken, leaving aside the rules on dates.
ViolatedFieldsButDates == ViolatedFields \ {"due_date", "date"}

JustSubmitted == form \in Forms /\ last = User("submit")
SubmitConcluded ==
    form \in Forms /\ last.outcome \in {"ok", "httpError", "rejected", "parseFailed"}
WriteMethod(f) == IF f \in {"EditTaskForm", "EditEventForm"} THEN "PATCH" ELSE "POST"

\* C2: right after a submit of values that break a rule of the form, no
\* request is in flight and each field whose rule is broken shows a non-empty
\* message; a new-task description of 1 to 4 characters shows 'Description
\* must be at least 5 characters'.
C2_InvalidSubmitBlocked ==
    JustSubmitted =>
        /\ \A name \in ViolatedFields :
              net = EmptyBag /\ HasErrorMessage(fieldErrors[name])
        /\ (form = "NewTaskForm" /\ Len(values.description) \in 1..4) =>
              /\ net = EmptyBag
              /\ fieldErrors.description =
                    Some([text |-> "Description must be at least 5 characters",
                          args |-> <<>>])

\* The same for the rules other than the rules on dates.
InvalidSubmitBlockedButDates ==
    JustSubmitted =>
        \A name \in ViolatedFieldsButDates :
            net = EmptyBag /\ HasErrorMessage(fieldErrors[name])

\* C3: at most one write request is in flight; right after a submit of values
\* that break no rule exactly one is, a POST of a creation form and a PATCH of
\* an edit form; and none is once the submit has concluded, however it went.
C3_ValidSubmitIssuesOneWrite ==
    /\ form \in Forms => BagCardinality(net) <= 1
    /\ (JustSubmitted /\ ViolatedFields = {}) =>
          \E r \in InFlight :
              /\ net = SetToBag({r})
              /\ r.method = WriteMethod(form)
    /\ SubmitConcluded => net = EmptyBag
C3_Witness ==
    /\ JustSubmitted /\ form = "EditTaskForm" /\ ViolatedFields = {}
    /\ BagCardinality(net) = 1

\* C10: once the handler of a submit that passed validation has finished,
\* with whatever outcome, the form is not submitting; it is submitting only
\* while its request is in flight.
C10_SubmittingClearedWhenFinished ==
    /\ SubmitConcluded => ~isSubmitting
    /\ (form \in Forms /\ isSubmitting) => net # EmptyBag
C10_Witness ==
    /\ form = "RSVPForm" /\ last.outcome = "parseFailed"
    /\ ~isSubmitting /\ ~IsNull(banner)

\* C14: the values of a task form are accepted by the new-task schema
\* exactly when they are accepted by the edit-task schema.
C14_TaskSchemasAgree ==
    form \in {"NewTaskForm", "EditTaskForm"} =>
        (HasErrors(TaskValidationSchema(values))
            <=> HasErrors(EditTaskForm_validationSchema(values)))

\* The same for the fields other than the description.
TaskSchemasAgreeButDescription ==
    form \in {"NewTaskForm", "EditTaskForm"} =>
        \A name \in {"assigned_to", "priority", "due_date"} :
            IsNull(TaskValidationSchema(values)[name])
                <=> IsNull(EditTaskForm_validationSchema(values)[name])

\* C15: right after a submit of a task form whose due date is earlier than
\* the time of the submit, no request is in flight and the due date shows a
\* message.
C15_PastDueDateRejectedAtSubmit ==
    (/\ JustSubmitted
     /\ form \in {"NewTaskForm", "EditTaskForm"}
     /\ ~IsNull(values.due_date)
     /\ Val(values.due_date) < now) =>
        net = EmptyBag /\ HasErrorMessage(fieldErrors.due_date)


\* The date field of the edit-event form still holds the value it was loaded
\* with.
LoadedDateUnchanged ==
    /\ form = "EditEventForm"
    /\ values.date = Some(EditEventForm_dateValue(Val(received).date, timezone))

\* C17: right after a submit of the edit-event form whose date field still
\* holds the loaded value, the date of every PATCH body in flight is the
\* instant of the date received from the server, whatever the client's
\* timezone.
C17_UnchangedDateRoundTrips ==
    (JustSubmitted /\ LoadedDateUnchanged) =>
        \A r \in InFlight :
            r.body.date = Some(NewDate(Val(received).date, timezone))

\* What is sent instead is the received instant moved back by the client's
\* offset from UTC.
UnchangedDateIsShiftedByOffset ==
    (JustSubmitted /\ LoadedDateUnchanged) =>
        \A r \in InFlight :
            r.body.date = Some(NewDate(Val(received).date, timezone) - timezone)


\* The words of the failure messages an event form can meet.
Words(m) ==
    CASE m.text = "Event title already exists" -> {"Event", "title", "already", "exists"}
      [] m.text \in {"Failed to update event", "Failed to update event. Please try again."} ->
            {"Failed", "to", "update", "event", "Please", "try", "again"}
      [] m.text \in {"Failed to create event", "Failed to create event. Please try again."} ->
            {"Failed", "to", "create", "event", "Please", "try", "again"}
      [] m.text = "Failed to fetch" -> {"Failed", "to", "fetch"}
      [] m.text = "Unexpected token < in JSON" -> {"Unexpected", "token", "in", "JSON"}
      [] m.text = "" -> {}

\* The message names the field: the field's name is one of its words.
Mentions(m, field) == field \in Words(m)

EventFormFailed ==
    /\ form \in {"NewEventForm", "EditEventForm"}
    /\ last.outcome \in {"httpError", "rejected", "parseFailed"}

\* C18: once a submit of an event form has failed, the form shows an error
\* banner, and the title or the date carries the banner's message as its
\* field error only if the message names that field.
C18_FieldErrorOnlyWhenNamed ==
    EventFormFailed =>
        /\ ~IsNull(banner) /\ Val(banner).type = "error"
        /\ \A field \in {"title", "date"} :
              fieldErrors[field] = Some(Val(banner).message) =>
                  Mentions(Val(banner).message, field)

\* The banner of a failed submit, and the title error of a message that
\* names the title.
EventFormFailureShown ==
    EventFormFailed =>
        /\ ~IsNull(banner) /\ Val(banner).type = "error"
        /\ Truthy(Val(banner).message)
        /\ fieldErrors.title = Some(Val(banner).message) =>
              Mentions(Val(banner).message, "title")
        /\ Mentions(Val(banner).message, "title") =>
              fieldErrors.title = Some(Val(banner).message)


CreationForms == {"RSVPForm", "NewTaskForm", "NewEventForm"}
CreationSucceeded == form \in CreationForms /\ last.outcome = "ok"

\* The empty value of a field: '' for text and choices, unchecked, no date.
EmptyValue(field) ==
    CASE field \in {"rsvp_status", "priority"} -> ""
      [] field = "completed" -> FALSE
      [] field \in {"due_date", "date"} -> Null
      [] OTHER -> <<>>

\* C20 as stated: right after a creation form that is still on the page got
\* a success response, every field of it is empty.
C20_CreationFormResetToEmpty ==
    (CreationSucceeded /\ shown) =>
        \A field \in Fields(form) : values[field] = EmptyValue(field)

\* C20: right after a success response, the RSVP form and the new-task form
\* hold their initial values, which are empty for the RSVP form and are
\* priority 'Medium', not completed and otherwise empty for the new-task
\* form; the new-event form is left without a reset.
C20_CreationFormResetToInitial ==
    CreationSucceeded =>
        /\ form \in {"RSVPForm", "NewTaskForm"} =>
              values = InitialValues(form, Null, Null)
        /\ form = "RSVPForm" =>
              \A field \in Fields(form) : values[field] = EmptyValue(field)
        /\ form = "NewTaskForm" =>
              /\ values.priority = "Medium"
              /\ \A field \in Fields(form) \ {"priority"} :
                    values[field] = EmptyValue(field)
        /\ form = "NewEventForm" => ~shown
C20_Witness ==
    /\ form = "NewTaskForm" /\ last.outcome = "ok" /\ shown
    /\ values.priority = "Medium" /\ values.description = <<>>


\* The least length the form's schema asks of a task description.
MinDescription(f) == IF f = "NewTaskForm" THEN 5 ELSE 3

\* C27: the description in the body of every request of a task form in
\* flight has at least the least length of the form's schema, and at most
\* 500 characters.
C27_SentDescriptionHasValidLength ==
    form \in {"NewTaskForm", "EditTaskForm"} =>
        \A r \in InFlight :
            /\ Len(r.body.description) >= MinDescription(form)
            /\ Len(r.body.description) <= 500

\* What holds right after the submit: it is the trimmed value of a field
\* that has the least length untrimmed, and it has at most 500 characters.
SentDescriptionIsTrimmedField ==
    (JustSubmitted /\ form \in {"NewTaskForm", "EditTaskForm"}) =>
        \A r \in InFlight :
            /\ r.body.description = Trim(values.description)
            /\ Len(values.description) >= MinDescription(form)
            /\ Len(r.body.description) <= 500

\* C28: the task being edited is in the list: editingTaskId is null or the id
\* of a task of the current tasks list, so that edit mode always shows the
\* edit form of an existing task.
C28_EditedTaskIsListed ==
    TaskListMountedIn(Cur) =>
        \/ IsNull(editingTaskId)
        \/ ~IsNull(FindTask(tasks, Val(editingTaskId)))

\* What holds of it: the edit form is displayed only for a task of the list,
\* and the id was the id of a listed task when the Edit button set it.
EditFormShowsListedTask ==
    EditTaskFormMountedIn(Cur) => ~IsNull(FindTask(tasks, Val(editingTaskId)))
EditButtonSetsListedTask ==
    last = User("editTask") => ~IsNull(FindTask(tasks, Val(editingTaskId)))

\* The DELETE requests of the mounted page that are in flight.
DeletesInFlight(n) == SumCopies({r \in BagToSet(n) : r.by = "handleDeleteEvent" /\ r.from = "page"}, n)

\* C29: a declined confirmation issues no DELETE and changes no state of the
\* detail view; a confirmed one issues exactly one DELETE /events/{id};
\* deleteLoading is true while the page's DELETE is outstanding, so that no
\* second one starts, and false once it concluded, whatever the outcome.
C29_DeleteEventGuarded ==
    [][/\ last' = User("declineDelete") => UNCHANGED <<viewVars, net>>
       /\ last' = User("deleteEvent") =>
            /\ DeletesInFlight(net) = 0 /\ DeletesInFlight(net') = 1
            /\ BagCardinality(net') = BagCardinality(net) + 1
            /\ \A r \in BagToSet(net') :
                   (r.by = "handleDeleteEvent" /\ r.from = "page") =>
                       r.method = "DELETE" /\ r.url = <<"events", eventId>>
       /\ (page' = "detail" /\ DeletesInFlight(net') > 0) =>
            deleteLoading' /\ DeletesInFlight(net') = 1
       /\ (last'.by = "handleDeleteEvent" /\ last'.from = "page") =>
            ~deleteLoading' /\ DeletesInFlight(net') = 0]_vars

C29_Witness ==
    /\ page = "detail"
    /\ last.by = "handleDeleteEvent" /\ last.from = "page"
    /\ last.outcome = "failed"
    /\ ~deleteLoading
    /\ Render = "loading"

\* The step just taken concluded the RSVP form's POST /rsvps with a response
\* of a status that is not a success.
RSVPNotOkStep ==
    /\ form = "RSVPForm"
    /\ last'.by = "RSVPForm.handleSubmit"
    /\ last'.outcome \in {"httpError", "parseFailed"}
    /\ ~ResponseOk(last'.status)

\* The submitError the RSVP form shows for a status that is not a success.
RSVPMessagesOf(status) ==
    IF status = 409
    THEN {Plain("You have already RSVP'd to this event. Each email can only RSVP once.")}
    ELSE IF status = 404 THEN {Plain("Event not found. Please try again.")}
    ELSE {m \in WriteErrorTexts : Truthy(m)}
             \cup {Plain("Failed to submit RSVP. Please try again.")}

\* The form after a response that set no success: the fields as they were,
\* submitSuccess false, and the form where it was, with nothing sent.
RSVPFormLeftAsItWas ==
    /\ values' = values
    /\ ~submitSuccess'
    /\ shown' = shown
    /\ BagCardinality(net') = BagCardinality(net) - 1

\* C30: a response to POST /rsvps that is not a success sets submitError by
\* its status (409, 404, or the server's error text or the default for any
\* other), and leaves the fields unchanged and submitSuccess false, with no
\* callback of the parent invoked.
C30_RSVPErrorByStatus ==
    [][RSVPNotOkStep =>
          /\ banner' \in {ErrorBanner(m) : m \in RSVPMessagesOf(last'.status)}
          /\ RSVPFormLeftAsItWas]_vars

\* What holds of it: this of the responses whose body parses as JSON; a body
\* that does not parse gives the message of a network error, whatever the
\* status, and leaves the form as it was too.
RSVPErrorByStatusOfParsedBody ==
    [][(RSVPNotOkStep /\ last'.outcome = "httpError") =>
          /\ banner' \in {ErrorBanner(m) : m \in RSVPMessagesOf(last'.status)}
          /\ RSVPFormLeftAsItWas]_vars
RSVPNetworkErrorOfUnparsedBody ==
    [][(RSVPNotOkStep /\ last'.outcome = "parseFailed") =>
          /\ banner' = ErrorBanner(Plain("Network error. Please check your connection and try again."))
          /\ RSVPFormLeftAsItWas]_vars

=============================================================================
